---- MODULE Spec2Model ----
(***************************************************************************)
(* A model of the lexical call-graph extraction engine of the repository   *)
(* (src/04.pyparser/ex01.py and its copy                                   *)
(* src/01-basic/extract-caller-callee-relation.py).                        *)
(*                                                                         *)
(* A text is a sequence of one-character strings.  Indices are Python's    *)
(* (0-based): At(s, i) is s[i], Slice(s, a, b) is s[a:b].                 *)
(***************************************************************************)
EXTENDS Integers, Sequences, FiniteSets, TLC

VARIABLES
    pc,          \* the stage of the run
    code,        \* the input text
    txt,         \* the text returned by strip_comments_and_strings
    start_idx,   \* _find_matching: the index the scan starts at
    open_ch,     \* _find_matching: the opening delimiter
    close_ch,    \* _find_matching: the closing delimiter
    result,      \* _find_matching: the value returned
    scan,        \* _find_matching: the local variables i and depth
    m,           \* extract_functions: the match the loop over SIG_RE.finditer is at
    functions,   \* the dict of units, in insertion order
    RESERVED,    \* the module-level set of reserved words
    exclude_prefixes,       \* extract_call_graph: the argument
    only_defined_callees,   \* extract_call_graph: the argument
    include_self_calls,     \* extract_call_graph: the argument
    edges,       \* extract_call_graph: the list of edges returned
    calls,       \* extract_call_graph: the dict caller -> callees returned
    called_by,   \* extract_call_graph: the dict callee -> callers returned
    prev,        \* what the run of the pipeline before this one returned
    units,       \* extract_cobol_units: the dict of units, in insertion order
    tpc,         \* for each thread, the statement it is at
    lock,        \* the class attribute _lock: the thread that holds it, or None
    instance,    \* the class attribute _instance: an object of the heap, or None
    heap,        \* the objects allocated, in allocation order, with their attributes
    files,       \* for each file name, the lines of the file
    local        \* for each thread, its arguments and local variables

matcherVars == <<start_idx, open_ch, close_ch, result, scan>>

extractVars == <<m, functions>>

policyVars == <<exclude_prefixes, only_defined_callees, include_self_calls>>

graphVars == <<edges, calls, called_by, prev>>

cobolVars == <<units>>

threadVars == <<tpc, lock, instance, heap, files, local>>

vars ==
    <<pc, code, txt, matcherVars, extractVars, RESERVED, policyVars, graphVars,
      cobolVars, threadVars>>

\* Python's None, where an index is expected: -1 is no index of any text
None == -1

NL == "\n"
DQ == "\""
SQ == "'"
BS == "\\"

(***************************************************************************)
(* Python's sequence primitives.                                           *)
(***************************************************************************)
At(s, i) == s[i + 1]

Slice(s, a, b) == IF b <= a THEN <<>> ELSE SubSeq(s, a + 1, b)

\* s[i:i+len(w)] == w
HasAt(s, i, w) ==
    /\ i >= 0
    /\ i + Len(w) <= Len(s)
    /\ \A k \in 1..Len(w) : s[i + k] = w[k]

\* str.find(w, from): the least index >= from where w occurs, -1 if none
Find(s, w, from) ==
    LET hits == {i \in from..(Len(s) - Len(w)) : HasAt(s, i, w)}
    IN  IF hits = {} THEN -1 ELSE CHOOSE i \in hits : \A j \in hits : i <= j

\* all texts over the characters S of length at most n
TextsUpTo(S, n) == UNION {[1..k -> S] : k \in 0..n}

(***************************************************************************)
(* strip_comments_and_strings: four re.sub passes, one after the other.    *)
(***************************************************************************)

\* re.sub(r"/\*.*?\*/", "", code, flags=re.DOTALL), from index i on
RECURSIVE SubBlockComments(_, _)
SubBlockComments(s, i) ==
    IF i >= Len(s) THEN <<>>
    ELSE IF HasAt(s, i, <<"/", "*">>) /\ Find(s, <<"*", "/">>, i + 2) # -1
         THEN SubBlockComments(s, Find(s, <<"*", "/">>, i + 2) + 2)
         ELSE <<At(s, i)>> \o SubBlockComments(s, i + 1)

\* where "$" first matches at or after i under re.MULTILINE: before a newline,
\* or at the end of the text
LineEnd(s, i) ==
    IF Find(s, <<NL>>, i) = -1 THEN Len(s) ELSE Find(s, <<NL>>, i)

\* re.sub(r"//.*?$", "", code, flags=re.MULTILINE), from index i on
RECURSIVE SubLineComments(_, _)
SubLineComments(s, i) ==
    IF i >= Len(s) THEN <<>>
    ELSE IF HasAt(s, i, <<"/", "/">>)
         THEN SubLineComments(s, LineEnd(s, i + 2))
         ELSE <<At(s, i)>> \o SubLineComments(s, i + 1)

\* the index of the quote that closes q(?:\\.|[^q\\])*q when the body starts
\* at j, -1 when the pattern does not match ("." does not match a newline)
RECURSIVE LiteralClose(_, _, _)
LiteralClose(s, j, q) ==
    IF j >= Len(s) THEN -1
    ELSE IF At(s, j) = q THEN j
    ELSE IF At(s, j) = BS
         THEN IF j + 1 < Len(s) /\ At(s, j + 1) # NL
              THEN LiteralClose(s, j + 2, q)
              ELSE -1
    ELSE LiteralClose(s, j + 1, q)

\* re.sub(r'q(?:\\.|[^q\\])*q', 'qq', code), from index i on
RECURSIVE SubLiterals(_, _, _)
SubLiterals(s, i, q) ==
    IF i >= Len(s) THEN <<>>
    ELSE IF At(s, i) = q /\ LiteralClose(s, i + 1, q) # -1
         THEN <<q, q>> \o SubLiterals(s, LiteralClose(s, i + 1, q) + 1, q)
         ELSE <<At(s, i)>> \o SubLiterals(s, i + 1, q)

\* a scrubber that leaves a placeholder inside each double-quoted literal
ScrubWithPlaceholder(s) ==
    LET c1 == SubBlockComments(s, 0)
        c2 == SubLineComments(c1, 0)
        c3 == SubLiterals(c2, 0, DQ)
        c4 == SubLiterals(c3, 0, SQ)
        RECURSIVE Fill(_, _)
        Fill(t, i) ==
            IF i >= Len(t) THEN <<>>
            ELSE IF HasAt(t, i, <<DQ, DQ>>)
                 THEN <<DQ, "s", DQ>> \o Fill(t, i + 2)
                 ELSE <<At(t, i)>> \o Fill(t, i + 1)
    IN  Fill(c4, 0)

strip_comments_and_strings(s) ==
    LET c1 == SubBlockComments(s, 0)
        c2 == SubLineComments(c1, 0)
        c3 == SubLiterals(c2, 0, DQ)
    IN  SubLiterals(c3, 0, SQ)

(***************************************************************************)
(* _find_matching.  MatchIter is one iteration of the outer while loop at  *)
(* index i with the depth counter at depth: ret says whether the iteration *)
(* returns, val is the value returned, i and depth are the values after    *)
(* the trailing "i += 1".                                                  *)
(***************************************************************************)

\* the inner loop that skips a literal: "while i < n and code[i] != q"
RECURSIVE SkipLiteral(_, _, _)
SkipLiteral(s, i, q) ==
    IF i < Len(s) /\ At(s, i) # q
    THEN SkipLiteral(s, (IF At(s, i) = BS THEN i + 1 ELSE i) + 1, q)
    ELSE i

Returns(v) == [ret |-> TRUE, val |-> v, i |-> 0, depth |-> 0]

Continues(i, depth) == [ret |-> FALSE, val |-> None, i |-> i, depth |-> depth]

\* an iteration that does not skip double-quoted strings
MatchIterCountsStrings(s, i, depth, open, close) ==
    LET ch == At(s, i)
        n == Len(s)
    IN  IF ch = open THEN Continues(i + 1, depth + 1)
        ELSE IF ch = close
             THEN IF depth - 1 = 0 THEN Returns(i)
                  ELSE Continues(i + 1, depth - 1)
        ELSE IF ch = SQ THEN Continues(SkipLiteral(s, i + 1, SQ) + 1, depth)
        ELSE IF ch = "/" /\ i + 1 < n /\ At(s, i + 1) = "*"
             THEN LET end == Find(s, <<"*", "/">>, i + 2)
                  IN  IF end = -1 THEN Returns(None)
                      ELSE Continues(end + 1 + 1, depth)
        ELSE IF ch = "/" /\ i + 1 < n /\ At(s, i + 1) = "/"
             THEN LET end == Find(s, <<NL>>, i + 2)
                  IN  IF end = -1 THEN Returns(n - 1)
                      ELSE Continues(end + 1, depth)
        ELSE Continues(i + 1, depth)

MatchIter(s, i, depth, open, close) ==
    LET ch == At(s, i)
        n == Len(s)
    IN  IF ch = open THEN Continues(i + 1, depth + 1)
        ELSE IF ch = close
             THEN IF depth - 1 = 0 THEN Returns(i)
                  ELSE Continues(i + 1, depth - 1)
        ELSE IF ch = DQ THEN Continues(SkipLiteral(s, i + 1, DQ) + 1, depth)
        ELSE IF ch = SQ THEN Continues(SkipLiteral(s, i + 1, SQ) + 1, depth)
        ELSE IF ch = "/" /\ i + 1 < n /\ At(s, i + 1) = "*"
             THEN LET end == Find(s, <<"*", "/">>, i + 2)
                  IN  IF end = -1 THEN Returns(None)
                      ELSE Continues(end + 1 + 1, depth)
        ELSE IF ch = "/" /\ i + 1 < n /\ At(s, i + 1) = "/"
             THEN LET end == Find(s, <<NL>>, i + 2)
                  IN  IF end = -1 THEN Returns(n - 1)
                      ELSE Continues(end + 1, depth)
        ELSE Continues(i + 1, depth)

\* the outer loop "while i < n", and the "return None" after it
RECURSIVE MatchLoop(_, _, _, _, _)
MatchLoop(s, i, depth, open, close) ==
    IF i < Len(s)
    THEN LET st == MatchIter(s, i, depth, open, close)
         IN  IF st.ret THEN st.val
             ELSE MatchLoop(s, st.i, st.depth, open, close)
    ELSE None

_find_matching(s, start, open, close) == MatchLoop(s, start, 0, open, close)

(***************************************************************************)
(* SIG_RE.  The character classes are those of Python's re on ASCII text.  *)
(***************************************************************************)
LowerSeq ==
    << "a", "b", "c", "d", "e", "f", "g", "h", "i", "j", "k", "l", "m",
       "n", "o", "p", "q", "r", "s", "t", "u", "v", "w", "x", "y", "z" >>

UpperSeq ==
    << "A", "B", "C", "D", "E", "F", "G", "H", "I", "J", "K", "L", "M",
       "N", "O", "P", "Q", "R", "S", "T", "U", "V", "W", "X", "Y", "Z" >>

DigitSeq == << "0", "1", "2", "3", "4", "5", "6", "7", "8", "9" >>

Lower == {LowerSeq[k] : k \in 1..Len(LowerSeq)}

Upper == {UpperSeq[k] : k \in 1..Len(UpperSeq)}

Digit == {DigitSeq[k] : k \in 1..Len(DigitSeq)}

\* \w
WordChars == Lower \cup Upper \cup Digit \cup {"_"}

\* [A-Za-z_]
NameStart == Lower \cup Upper \cup {"_"}

\* \s, and str.isspace
SpaceChars == {" ", "\t", "\n", "\r", "\f"}

IsWordAt(s, i) == i >= 0 /\ i < Len(s) /\ At(s, i) \in WordChars

\* \b at index i
WordBoundary(s, i) == IsWordAt(s, i - 1) # IsWordAt(s, i)

\* where a greedy run of characters of S that starts at i ends
SkipWhile(s, i, S) ==
    CHOOSE j \in i..Len(s) :
        /\ \A k \in i..(j - 1) : At(s, k) \in S
        /\ (j = Len(s) \/ At(s, j) \notin S)

\* \s* and \s+ at i: the index after the run, -1 when \s+ does not match
Space0(s, i) == SkipWhile(s, i, SpaceChars)

Space1(s, i) == IF i >= 0 /\ Space0(s, i) > i THEN Space0(s, i) ELSE -1

\* w1\s+w2\s+...\s+wk at i: the index after it, -1 when it does not match
RECURSIVE Keywords(_, _, _)
Keywords(s, i, ws) ==
    IF ws = <<>> THEN i
    ELSE IF ~HasAt(s, i, Head(ws)) THEN -1
    ELSE IF Len(ws) = 1 THEN i + Len(Head(ws))
    ELSE IF Space1(s, i + Len(Head(ws))) = -1 THEN -1
    ELSE Keywords(s, Space1(s, i + Len(Head(ws))), Tail(ws))

Qualifiers == {<<"s", "t", "a", "t", "i", "c">>, <<"i", "n", "l", "i", "n", "e">>, <<"e", "x", "t", "e", "r", "n">>, <<"c", "o", "n", "s", "t">>, <<"v", "o", "l", "a", "t", "i", "l", "e">>, <<"r", "e", "g", "i", "s", "t", "e", "r">>}

\* (?:\b(?:static|...)\b\s+)* at p: the index after the last qualifier
RECURSIVE QualifiersEnd(_, _)
QualifiersEnd(s, p) ==
    LET next == {Space1(s, p + Len(q)) : q \in
                   {q \in Qualifiers : /\ WordBoundary(s, p)
                                       /\ HasAt(s, p, q)
                                       /\ WordBoundary(s, p + Len(q))}} \ {-1}
    IN  IF next = {} THEN p
        ELSE QualifiersEnd(s, CHOOSE j \in next : TRUE)

\* \s*\* at i: the index after the star, -1 when it does not match
Star(s, i) ==
    IF i >= 0 /\ Space0(s, i) < Len(s) /\ At(s, Space0(s, i)) = "*"
    THEN Space0(s, i) + 1
    ELSE -1

\* struct\s+\w+ at p: the index after the tag, -1 when it does not match
StructTag(s, p) ==
    LET j == Space1(s, Keywords(s, p, <<<<"s", "t", "r", "u", "c", "t">>>>))
    IN  IF j = -1 \/ SkipWhile(s, j, WordChars) = j THEN -1
        ELSE SkipWhile(s, j, WordChars)

\* the indices where the alternatives of (?P<ret>...) end at p, in the order
\* the pattern tries them; -1 for an alternative that does not match
RetEnds(s, p) ==
    << Keywords(s, p, <<<<"u", "n", "s", "i", "g", "n", "e", "d">>, <<"l", "o", "n", "g">>, <<"l", "o", "n", "g">>>>),
       Keywords(s, p, <<<<"u", "n", "s", "i", "g", "n", "e", "d">>, <<"l", "o", "n", "g">>>>),
       Keywords(s, p, <<<<"u", "n", "s", "i", "g", "n", "e", "d">>, <<"i", "n", "t">>>>),
       Keywords(s, p, <<<<"l", "o", "n", "g">>, <<"l", "o", "n", "g">>>>),
       Keywords(s, p, <<<<"l", "o", "n", "g">>>>),
       Keywords(s, p, <<<<"i", "n", "t">>>>),
       Star(s, Keywords(s, p, <<<<"c", "h", "a", "r">>>>)),
       Keywords(s, p, <<<<"c", "h", "a", "r">>>>),
       Star(s, Keywords(s, p, <<<<"v", "o", "i", "d">>>>)),
       Keywords(s, p, <<<<"v", "o", "i", "d">>>>),
       Star(s, StructTag(s, p)),
       StructTag(s, p) >>

NoMatch == [start |-> -1, end |-> -1, name |-> <<>>]

\* \s+(?P<name>[A-Za-z_]\w*)\s*\( at e, for a match that starts at p
SigTail(s, p, e) ==
    LET j == Space1(s, e)
    IN  IF j = -1 \/ j >= Len(s) \/ At(s, j) \notin NameStart THEN NoMatch
        ELSE LET k == SkipWhile(s, j, WordChars)
                 l == Space0(s, k)
             IN  IF l < Len(s) /\ At(s, l) = "("
                 THEN [start |-> p, end |-> l + 1, name |-> Slice(s, j, k)]
                 ELSE NoMatch

\* SIG_RE.match at p: the match object (m.start(), m.end(), m.group("name"))
SigMatchAt(s, p) ==
    LET q == QualifiersEnd(s, p)
        ends == RetEnds(s, q)
        ok == {a \in 1..Len(ends) :
                 ends[a] # -1 /\ SigTail(s, p, ends[a]) # NoMatch}
    IN  IF ok = {} THEN NoMatch
        ELSE SigTail(s, p, ends[CHOOSE a \in ok : \A b \in ok : a <= b])

\* SIG_RE.search from index from on: the leftmost match, the next one that
\* SIG_RE.finditer yields
RECURSIVE SigSearch(_, _)
SigSearch(s, from) ==
    IF from > Len(s) THEN NoMatch
    ELSE LET found == SigMatchAt(s, from)
         IN  IF found # NoMatch THEN found ELSE SigSearch(s, from + 1)

(***************************************************************************)
(* The dict of units.  A Python dict keeps its keys in insertion order, and*)
(* assigning to a key it holds keeps the key's place: the dict is the      *)
(* sequence of its items [name, signature, body], names pairwise distinct. *)
(***************************************************************************)
DictKeys(d) == {d[k].name : k \in 1..Len(d)}

DictGet(d, name) == d[CHOOSE k \in 1..Len(d) : d[k].name = name]

\* a d[name] = ... that keeps the item the dict already holds for the name
DictSetKeepsFirst(d, name, signature, body) ==
    LET item == [name |-> name, signature |-> signature, body |-> body]
    IN  IF name \in DictKeys(d) THEN d ELSE Append(d, item)

\* d[name] = {'signature': signature, 'body': body}
DictSet(d, name, signature, body) ==
    LET item == [name |-> name, signature |-> signature, body |-> body]
    IN  IF name \in DictKeys(d)
        THEN [k \in 1..Len(d) |-> IF d[k].name = name THEN item ELSE d[k]]
        ELSE Append(d, item)

\* str.strip()
Strip(s) ==
    LET keep == {k \in 1..Len(s) : s[k] \notin SpaceChars}
    IN  IF keep = {} THEN <<>>
        ELSE SubSeq(s, CHOOSE a \in keep : \A b \in keep : a <= b,
                       CHOOSE a \in keep : \A b \in keep : a >= b)

(***************************************************************************)
(* extract_functions.  Candidate is what one iteration of the loop over    *)
(* SIG_RE.finditer(txt) finds for the match m: kind tells which "continue" *)
(* it takes, or that it reaches the assignment to functions[name].         *)
(***************************************************************************)
Skipped(kind) == [kind |-> kind, signature |-> <<>>, body |-> <<>>]

\* a Candidate that takes the next braces for a body whatever follows the ")"
CandidateAnyBody(t, sig) ==
    LET p_open == sig.end - 1
        p_close == _find_matching(t, p_open, "(", ")")
    IN  IF p_close = None THEN Skipped("unmatched_params")
        ELSE LET b_open == Space0(t, p_close + 1)
                 b_close == _find_matching(t, b_open, "{", "}")
             IN  IF b_close = None THEN Skipped("unmatched_body")
                 ELSE [kind |-> "definition",
                       signature |->
                           Strip(Slice(t, sig.start, p_close + 1)),
                       body |-> Slice(t, b_open, b_close + 1)]

\* a Candidate that takes an unclosed body to run to the end of the text
CandidateOpenBody(t, sig) ==
    LET p_open == sig.end - 1
        p_close == _find_matching(t, p_open, "(", ")")
    IN  IF p_close = None THEN Skipped("unmatched_params")
        ELSE LET j == Space0(t, p_close + 1)
             IN  IF j >= Len(t) \/ At(t, j) # "{" THEN Skipped("declaration")
                 ELSE LET b_open == j
                          b_close == _find_matching(t, b_open, "{", "}")
                      IN  [kind |-> "definition",
                           signature |->
                               Strip(Slice(t, sig.start, p_close + 1)),
                           body |-> Slice(t, b_open,
                                          IF b_close = None THEN Len(t)
                                          ELSE b_close + 1)]

\* a Candidate whose body stops before the closing brace
CandidateDropsClose(t, sig) ==
    LET p_open == sig.end - 1
        p_close == _find_matching(t, p_open, "(", ")")
    IN  IF p_close = None THEN Skipped("unmatched_params")
        ELSE LET j == Space0(t, p_close + 1)
             IN  IF j >= Len(t) \/ At(t, j) # "{" THEN Skipped("declaration")
                 ELSE LET b_open == j
                          b_close == _find_matching(t, b_open, "{", "}")
                      IN  IF b_close = None THEN Skipped("unmatched_body")
                          ELSE [kind |-> "definition",
                                signature |->
                                    Strip(Slice(t, sig.start, p_close + 1)),
                                body |-> Slice(t, b_open, b_close)]

Candidate(t, sig) ==
    LET p_open == sig.end - 1
        p_close == _find_matching(t, p_open, "(", ")")
    IN  IF p_close = None THEN Skipped("unmatched_params")
        ELSE LET j == Space0(t, p_close + 1)
             IN  IF j >= Len(t) \/ At(t, j) # "{" THEN Skipped("declaration")
                 ELSE LET b_open == j
                          b_close == _find_matching(t, b_open, "{", "}")
                      IN  IF b_close = None THEN Skipped("unmatched_body")
                          ELSE [kind |-> "definition",
                                signature |->
                                    Strip(Slice(t, sig.start, p_close + 1)),
                                body |-> Slice(t, b_open, b_close + 1)]

\* the dict after the iteration for the match m
ExtractIter(fns, t, sig) ==
    LET c == Candidate(t, sig)
    IN  IF c.kind = "definition"
        THEN DictSet(fns, sig.name, c.signature, c.body)
        ELSE fns

\* the loop from the search index from on, and the dict it ends with
RECURSIVE ExtractLoop(_, _, _)
ExtractLoop(fns, t, from) ==
    LET sig == SigSearch(t, from)
    IN  IF sig = NoMatch THEN fns
        ELSE ExtractLoop(ExtractIter(fns, t, sig), t, sig.end)

extract_functions(c) == ExtractLoop(<<>>, strip_comments_and_strings(c), 0)

(***************************************************************************)
(* CALL_RE and RESERVED.                                                   *)
(***************************************************************************)

\* CALL_RE.match at p: \b([A-Za-z_]\w*)\s*\(
CallMatchAt(s, p) ==
    IF p < Len(s) /\ At(s, p) \in NameStart /\ WordBoundary(s, p)
    THEN LET k == SkipWhile(s, p, WordChars)
             l == Space0(s, k)
         IN  IF l < Len(s) /\ At(s, l) = "("
             THEN [start |-> p, end |-> l + 1, name |-> Slice(s, p, k)]
             ELSE NoMatch
    ELSE NoMatch

\* [m.group(1) for m in CALL_RE.finditer(body)], from index from on
RECURSIVE CallNames(_, _)
CallNames(s, from) ==
    IF from > Len(s) THEN <<>>
    ELSE LET found == CallMatchAt(s, from)
         IN  IF found # NoMatch
             THEN <<found.name>> \o CallNames(s, found.end)
             ELSE CallNames(s, from + 1)

\* the value the module sets RESERVED to
ReservedWords ==
    { <<"i", "f">>, <<"f", "o", "r">>, <<"w", "h", "i", "l", "e">>,
      <<"s", "w", "i", "t", "c", "h">>, <<"r", "e", "t", "u", "r", "n">>,
      <<"s", "i", "z", "e", "o", "f">> }

(***************************************************************************)
(* Python's order on strings (by code point) and on tuples of strings, and *)
(* the orders a set may be iterated in.                                    *)
(***************************************************************************)

\* ord(c), for the characters of \w and "-": "-" is 45, "0" is 48, "A" 65,
\* "_" 95, "a" 97
IndexIn(q, c) == CHOOSE k \in 1..Len(q) : q[k] = c

Ord(c) ==
    IF c = "-" THEN 45
    ELSE IF c \in Digit THEN 47 + IndexIn(DigitSeq, c)
    ELSE IF c \in Upper THEN 64 + IndexIn(UpperSeq, c)
    ELSE IF c = "_" THEN 95
    ELSE 96 + IndexIn(LowerSeq, c)

\* a < b for two strings: a is a proper prefix of b, or the first character
\* they differ in is smaller in a
StrLess(a, b) ==
    \E k \in 1..Len(b) :
        /\ Len(a) >= k - 1
        /\ \A i \in 1..(k - 1) : a[i] = b[i]
        /\ (Len(a) = k - 1 \/ Ord(a[k]) < Ord(b[k]))

\* a < b for two tuples (caller, callee)
PairLess(a, b) ==
    \/ StrLess(a[1], b[1])
    \/ (a[1] = b[1] /\ StrLess(a[2], b[2]))

\* the items of the sequence e
Items(e) == {e[k] : k \in 1..Len(e)}

\* the orders a set may be iterated in: a set has no order of its own
RECURSIVE Enumerations(_)
Enumerations(S) ==
    IF S = {} THEN {<<>>}
    ELSE UNION {{<<x>> \o e : e \in Enumerations(S \ {x})} : x \in S}

(***************************************************************************)
(* extract_call_graph.  The sets edges, calls[caller] and called_by[callee]*)
(* are sets; calls and called_by are dicts, sequences of items [key, val]  *)
(* in insertion order (a defaultdict gets a key when it is first indexed). *)
(***************************************************************************)

\* callee.startswith(p)
StartsWith(callee, p) == HasAt(callee, 0, p)

\* a Survives whose prefix rule drops only the callees equal to a prefix
SurvivesUnlessEqualPrefix(caller, callee, defined, policy) ==
    /\ ~(callee \in policy.reserved)
    /\ ~(\E k \in 1..Len(policy.exclude_prefixes) :
            callee = policy.exclude_prefixes[k])
    /\ ~(~policy.include_self_calls /\ callee = caller)
    /\ ~(policy.only_defined_callees /\ callee \notin defined)

\* none of the four "continue" of the loop body is taken
Survives(caller, callee, defined, policy) ==
    /\ ~(callee \in policy.reserved)
    /\ ~(\E k \in 1..Len(policy.exclude_prefixes) :
            StartsWith(callee, policy.exclude_prefixes[k]))
    /\ ~(~policy.include_self_calls /\ callee = caller)
    /\ ~(policy.only_defined_callees /\ callee \notin defined)

\* d[key].add(x) on a defaultdict(set)
AddTo(d, key, x) ==
    IF \E k \in 1..Len(d) : d[k].key = key
    THEN [k \in 1..Len(d) |->
            IF d[k].key = key THEN [d[k] EXCEPT !.val = @ \cup {x}] ELSE d[k]]
    ELSE Append(d, [key |-> key, val |-> {x}])

\* an AddEdge that files the reverse view under the caller
AddEdgeSwapped(acc, caller, callee) ==
    [edges |-> acc.edges \cup {<<caller, callee>>},
     calls |-> AddTo(acc.calls, caller, callee),
     called_by |-> AddTo(acc.called_by, caller, callee)]

\* edges.add((caller, callee)); calls[caller].add(callee);
\* called_by[callee].add(caller)
AddEdge(acc, caller, callee) ==
    [edges |-> acc.edges \cup {<<caller, callee>>},
     calls |-> AddTo(acc.calls, caller, callee),
     called_by |-> AddTo(acc.called_by, callee, caller)]

\* an inner loop that a dropped call ends ("break" for "continue")
RECURSIVE ScanBodyBreaks(_, _, _, _, _)
ScanBodyBreaks(acc, caller, names, defined, policy) ==
    IF names = <<>> THEN acc
    ELSE IF Survives(caller, Head(names), defined, policy)
         THEN ScanBodyBreaks(AddEdge(acc, caller, Head(names)),
                             caller, Tail(names), defined, policy)
         ELSE acc

\* the inner loop, over the names the call scanner finds in one body
RECURSIVE ScanBody(_, _, _, _, _)
ScanBody(acc, caller, names, defined, policy) ==
    IF names = <<>> THEN acc
    ELSE ScanBody(IF Survives(caller, Head(names), defined, policy)
                  THEN AddEdge(acc, caller, Head(names))
                  ELSE acc,
                  caller, Tail(names), defined, policy)

\* the outer loop, over functions.items() from the k-th item on
RECURSIVE ScanUnits(_, _, _, _)
ScanUnits(acc, fns, k, policy) ==
    IF k > Len(fns) THEN acc
    ELSE ScanUnits(ScanBody(acc, fns[k].name, CallNames(fns[k].body, 0),
                            DictKeys(fns), policy),
                   fns, k + 1, policy)

\* the three sets when the loops end
GraphSets(fns, policy) ==
    ScanUnits([edges |-> {}, calls |-> <<>>, called_by |-> <<>>],
              fns, 1, policy)

\* the edges as the set happens to be iterated, not sorted
UnsortedEdges(e) == e

\* sorted(edges), for the order e the set is iterated in: the k-th item is
\* the edge that k - 1 edges are less than
SortedEdges(e) ==
    [k \in 1..Len(e) |->
        CHOOSE x \in Items(e) :
            Cardinality({y \in Items(e) : PairLess(y, x)}) = k - 1]

\* the names as the set happens to be iterated, not sorted
UnsortedNames(e) == e

\* sorted(v), for the order e the set v is iterated in
SortedNames(e) ==
    [k \in 1..Len(e) |->
        CHOOSE x \in Items(e) :
            Cardinality({y \in Items(e) : StrLess(y, x)}) = k - 1]

\* {k: sorted(v) for k, v in d.items()}, for every order each v may be
\* iterated in
RECURSIVE SortedViews(_)
SortedViews(d) ==
    IF d = <<>> THEN {<<>>}
    ELSE {<<[key |-> Head(d).key, val |-> SortedNames(e)]>> \o rest :
            e \in Enumerations(Head(d).val), rest \in SortedViews(Tail(d))}

(***************************************************************************)
(* Variables a specification does not use keep their initial values.       *)
(***************************************************************************)
\* the locals of _find_matching before a call
NoScan == [i |-> 0, depth |-> 0]

MatcherIdle ==
    /\ start_idx = 0
    /\ open_ch = "("
    /\ close_ch = ")"
    /\ result = None
    /\ scan = NoScan

ExtractIdle ==
    /\ m = NoMatch
    /\ functions = <<>>

\* no run yet
NoResult == [edges |-> <<>>, calls |-> <<>>, called_by |-> <<>>]

\* no threads, no object, no file
ThreadIdle ==
    /\ tpc = <<>>
    /\ lock = None
    /\ instance = None
    /\ heap = <<>>
    /\ files = <<>>
    /\ local = <<>>

CobolIdle == units = <<>>

GraphIdle ==
    /\ RESERVED = ReservedWords
    /\ exclude_prefixes = <<>>
    /\ only_defined_callees = FALSE
    /\ include_self_calls = FALSE
    /\ edges = <<>>
    /\ calls = <<>>
    /\ called_by = <<>>
    /\ prev = NoResult
    /\ CobolIdle

(***************************************************************************)
(* The scrubber alone: one call of strip_comments_and_strings on a text.   *)
(***************************************************************************)
MaxScrubLen == 4

ScrubChars == {"/", "*", NL, DQ, SQ, BS, "a", "("}

ScrubInit ==
    /\ pc = "scrub"
    /\ code \in TextsUpTo(ScrubChars, MaxScrubLen)
    /\ txt = <<>>
    /\ MatcherIdle
    /\ ExtractIdle
    /\ GraphIdle
    /\ ThreadIdle

Scrub ==
    /\ pc = "scrub"
    /\ txt' = strip_comments_and_strings(code)
    /\ pc' = "scrubbed"
    /\ UNCHANGED <<code, matcherVars, extractVars, RESERVED, policyVars, graphVars,
                   cobolVars, threadVars>>

ScrubNext == Scrub

ScrubSpec == ScrubInit /\ [][ScrubNext]_vars

(***************************************************************************)
(* The matcher alone: one call of _find_matching on a text, from an index  *)
(* that holds the opening delimiter, for parentheses and for braces.       *)
(***************************************************************************)
MaxMatchLen == 5

Delimiters == {<<"(", ")">>, <<"{", "}">>}

MatchChars(open, close) == {open, close, DQ, SQ, BS, "/", "*", NL}

MatchInit ==
    /\ pc = "match"
    /\ \E d \in Delimiters :
          /\ open_ch = d[1]
          /\ close_ch = d[2]
          /\ code \in TextsUpTo(MatchChars(d[1], d[2]), MaxMatchLen)
    /\ start_idx \in 0..(MaxMatchLen - 1)
    /\ start_idx < Len(code)
    /\ At(code, start_idx) = open_ch
    /\ txt = <<>>
    /\ result = None
    /\ scan = NoScan
    /\ ExtractIdle
    /\ GraphIdle
    /\ ThreadIdle

Match ==
    /\ pc = "match"
    /\ result' = _find_matching(code, start_idx, open_ch, close_ch)
    /\ pc' = "matched"
    /\ UNCHANGED <<code, txt, start_idx, open_ch, close_ch, scan, extractVars,
                   RESERVED, policyVars, graphVars,
                   cobolVars, threadVars>>

MatchNext == Match

MatchSpec == MatchInit /\ [][MatchNext]_vars

(***************************************************************************)
(* The extractor: one call of extract_functions, an action for the call of *)
(* the scrubber and one for each iteration of the loop over the signature  *)
(* matches.  The texts are the concatenations of a few pieces of C.        *)
(***************************************************************************)
MaxPieces == 4

ExtractPieces ==
    { <<"i", "n", "t", " ", "f", "(", ")">>,
      <<"i", "n", "t", " ", "g", "(", ")">>,
      <<"i", "n", "t", " ", "f", "(">>,
      <<" ", "{">>, <<" ", "{", "}">>, <<"}">> }

RECURSIVE Flatten(_)
Flatten(ps) == IF ps = <<>> THEN <<>> ELSE Head(ps) \o Flatten(Tail(ps))

ExtractInit ==
    /\ pc = "extract"
    /\ code \in {Flatten(ps) : ps \in TextsUpTo(ExtractPieces, MaxPieces)}
    /\ txt = <<>>
    /\ MatcherIdle
    /\ ExtractIdle
    /\ GraphIdle
    /\ ThreadIdle

\* txt = strip_comments_and_strings(code); functions = {}; the loop is at
\* the first match of SIG_RE.finditer(txt)
ExtractScrub ==
    /\ pc = "extract"
    /\ txt' = strip_comments_and_strings(code)
    /\ functions' = <<>>
    /\ m' = SigSearch(txt', 0)
    /\ pc' = "scan"
    /\ UNCHANGED <<code, matcherVars, RESERVED, policyVars, graphVars,
                   cobolVars, threadVars>>

\* the iteration of the loop for the match m: kind is what it finds
ExtractCandidate(kind) ==
    /\ pc = "scan"
    /\ m # NoMatch
    /\ Candidate(txt, m).kind = kind
    /\ functions' = ExtractIter(functions, txt, m)
    /\ m' = SigSearch(txt, m.end)
    /\ UNCHANGED <<pc, code, txt, matcherVars, RESERVED, policyVars, graphVars,
                   cobolVars, threadVars>>

\* "if p_close is None: continue"
SkipUnmatchedParams == ExtractCandidate("unmatched_params")

\* "if j >= len(txt) or txt[j] != '{': continue"
SkipDeclaration == ExtractCandidate("declaration")

\* "if b_close is None: continue"
SkipUnmatchedBody == ExtractCandidate("unmatched_body")

\* functions[name] = {'signature': signature, 'body': body}
RecordDefinition == ExtractCandidate("definition")

\* the matches are exhausted: return functions
ExtractReturn ==
    /\ pc = "scan"
    /\ m = NoMatch
    /\ pc' = "extracted"
    /\ UNCHANGED <<code, txt, matcherVars, extractVars, RESERVED, policyVars, graphVars,
                   cobolVars, threadVars>>

ExtractNext ==
    \/ ExtractScrub
    \/ SkipUnmatchedParams
    \/ SkipDeclaration
    \/ SkipUnmatchedBody
    \/ RecordDefinition
    \/ ExtractReturn

ExtractSpec == ExtractInit /\ [][ExtractNext]_vars

(***************************************************************************)
(* The graph builder: one call of extract_call_graph, on every dict of     *)
(* units named f and g (in either order) whose bodies are call-like tokens *)
(* between braces, a few in all, under every policy of a few.              *)
(***************************************************************************)
MaxCalls == 3

UnitNames == {<<"f">>, <<"g">>}

BodyPieces ==
    { <<"f", "(">>, <<"g", " ", "(">>, <<"i", "f", "(">>,
      <<"p", "u", "t", "(">> }

Bodies ==
    {<<"{">> \o Flatten(ps) \o <<"}">> : ps \in TextsUpTo(BodyPieces, MaxCalls)}

Unit(name, body) ==
    [name |-> name,
     signature |-> <<"i", "n", "t", " ">> \o name \o <<"(", ")">>,
     body |-> body]

\* the number of pieces the bodies of d are made of
TotalCalls(d) ==
    Cardinality({x \in (1..Len(d)) \X (1..(4 * MaxCalls + 2)) :
                   x[2] <= Len(d[x[1]].body) /\ d[x[1]].body[x[2]] = "("})

\* the dicts of units: every order of every set of names, every body
UnitDicts ==
    UNION {{d \in [1..n -> {Unit(u, b) : u \in UnitNames, b \in Bodies}] :
              /\ \A j \in 1..n : \A k \in 1..n : d[j].name = d[k].name => j = k
              /\ TotalCalls(d) <= MaxCalls} :
           n \in 0..Cardinality(UnitNames)}

PrefixLists == {<<>>, <<<<"x">>, <<"p", "u">>>>}

GraphInit ==
    /\ pc = "graph"
    /\ code = <<>>
    /\ txt = <<>>
    /\ MatcherIdle
    /\ m = NoMatch
    /\ functions \in UnitDicts
    /\ RESERVED = ReservedWords
    /\ exclude_prefixes \in PrefixLists
    /\ only_defined_callees \in BOOLEAN
    /\ include_self_calls \in BOOLEAN
    /\ edges = <<>>
    /\ calls = <<>>
    /\ called_by = <<>>
    /\ prev = NoResult
    /\ CobolIdle
    /\ ThreadIdle

\* the policy of the call
Policy ==
    [reserved |-> RESERVED,
     exclude_prefixes |-> exclude_prefixes,
     only_defined_callees |-> only_defined_callees,
     include_self_calls |-> include_self_calls]

\* extract_call_graph(functions, exclude_prefixes, only_defined_callees,
\* include_self_calls): the loops, then the three sorted results
BuildGraph ==
    /\ pc = "graph"
    /\ LET g == GraphSets(functions, Policy)
       IN  /\ edges' \in {SortedEdges(e) : e \in Enumerations(g.edges)}
           /\ calls' \in SortedViews(g.calls)
           /\ called_by' \in SortedViews(g.called_by)
    /\ pc' = "built"
    /\ UNCHANGED <<code, txt, matcherVars, extractVars, RESERVED, policyVars,
                   prev,
                   cobolVars, threadVars>>

GraphNext == BuildGraph

GraphSpec == GraphInit /\ [][GraphNext]_vars

(***************************************************************************)
(* The pipeline, twice on one text and with one policy, as the demo runs   *)
(* it: extract_functions, then extract_call_graph on what it returns, with *)
(* only_defined_callees=True.                                              *)
(* RESERVED is the module's set, which both runs read.                     *)
(***************************************************************************)
MaxPipelinePieces == 4

PipelinePieces ==
    { <<"i", "n", "t", " ", "f", "(", ")", "{">>,
      <<"v", "o", "i", "d", " ", "g", "(", ")", "{", "f", "(", ")", ";", "}">>,
      <<"g", "(", ")", ";">>, <<"f", "(", ")", ";">>, <<"}">> }

PipelineInit ==
    /\ pc = "first"
    /\ code \in {Flatten(ps) :
                   ps \in TextsUpTo(PipelinePieces, MaxPipelinePieces)}
    /\ txt = <<>>
    /\ MatcherIdle
    /\ ExtractIdle
    /\ RESERVED = ReservedWords
    /\ exclude_prefixes = <<>>
    /\ only_defined_callees = TRUE
    /\ include_self_calls \in BOOLEAN
    /\ edges = <<>>
    /\ calls = <<>>
    /\ called_by = <<>>
    /\ prev = NoResult
    /\ CobolIdle
    /\ ThreadIdle

\* functions = extract_functions(code);
\* edges, calls, called_by = extract_call_graph(functions, ...)
RunPipeline(from, to) ==
    /\ pc = from
    /\ txt' = strip_comments_and_strings(code)
    /\ functions' = extract_functions(code)
    /\ LET g == GraphSets(functions', Policy)
       IN  /\ edges' \in {SortedEdges(e) : e \in Enumerations(g.edges)}
           /\ calls' \in SortedViews(g.calls)
           /\ called_by' \in SortedViews(g.called_by)
    /\ prev' = [edges |-> edges, calls |-> calls, called_by |-> called_by]
    /\ pc' = to
    /\ UNCHANGED <<code, matcherVars, m, RESERVED, policyVars,
                   cobolVars, threadVars>>

FirstRun == RunPipeline("first", "second")

SecondRun == RunPipeline("second", "ran_twice")

PipelineNext == FirstRun \/ SecondRun

PipelineSpec == PipelineInit /\ [][PipelineNext]_vars

(***************************************************************************)
(* C1.  The scrubber and the length of the text.                           *)
(***************************************************************************)

RECURSIVE ClosingQuote(_, _, _)
ClosingQuote(s, j, q) ==
    IF j >= Len(s) THEN -1
    ELSE IF At(s, j) = q THEN j
    ELSE IF At(s, j) = BS THEN ClosingQuote(s, j + 2, q)
    ELSE ClosingQuote(s, j + 1, q)

\* the indices >= i outside literals and comments, i being outside them
RECURSIVE OutsideFrom(_, _)
OutsideFrom(s, i) ==
    IF i >= Len(s) THEN {}
    ELSE IF At(s, i) \in {DQ, SQ}
         THEN LET c == ClosingQuote(s, i + 1, At(s, i))
              IN  IF c = -1 THEN {} ELSE OutsideFrom(s, c + 1)
    ELSE IF HasAt(s, i, <<"/", "*">>)
         THEN LET e == Find(s, <<"*", "/">>, i + 2)
              IN  IF e = -1 THEN {} ELSE OutsideFrom(s, e + 2)
    ELSE IF HasAt(s, i, <<"/", "/">>)
         THEN LET e == Find(s, <<NL>>, i + 2)
              IN  IF e = -1 THEN {} ELSE OutsideFrom(s, e)
    ELSE {i} \cup OutsideFrom(s, i + 1)

\* opening minus closing delimiters outside literals and comments in start..r
DepthAt(s, start, r, open, close) ==
    LET out == {k \in OutsideFrom(s, start) : k <= r}
    IN  Cardinality({k \in out : At(s, k) = open})
          - Cardinality({k \in out : At(s, k) = close})

\* the delimiter that closes the one at start, None if it is not closed
TrueClose(s, start, open, close) ==
    LET cands == {r \in OutsideFrom(s, start) :
                    /\ r > start
                    /\ At(s, r) = close
                    /\ DepthAt(s, start, r, open, close) = 0}
    IN  IF cands = {} THEN None
        ELSE CHOOSE r \in cands : \A q \in cands : r <= q

C3_IndexIsAClose ==
    (pc = "matched" /\ result # None)
        => (result > start_idx /\ At(code, result) = close_ch)

(***************************************************************************)
(* C4, C5.  Which candidates extract_functions records.  The reference     *)
(* classifies a signature match lexically, with TrueClose: RefKind uses    *)
(* nothing of _find_matching or Candidate.                                 *)
(***************************************************************************)

\* the index of the "{" that follows index i after optional whitespace, -1
\* if what follows is something else or the end of the text
BraceAfter(t, i) ==
    LET js == {j \in (i + 1)..(Len(t) - 1) :
                 /\ At(t, j) = "{"
                 /\ \A k \in (i + 1)..(j - 1) : At(t, k) \in SpaceChars}
    IN  IF js = {} THEN -1 ELSE CHOOSE j \in js : TRUE

RefKind(t, sig) ==
    LET pclose == TrueClose(t, sig.end - 1, "(", ")")
    IN  IF pclose = None THEN "unmatched_params"
        ELSE IF BraceAfter(t, pclose) = -1 THEN "declaration"
        ELSE IF TrueClose(t, BraceAfter(t, pclose), "{", "}") = None
             THEN "unmatched_body"
        ELSE "definition"

\* the indices where a signature matches
SigPositions(t) == {p \in 0..Len(t) : SigMatchAt(t, p) # NoMatch}

\* a signature match of one of the kinds ks at p, a definition at a later q
LaterDefinition(t, ks, p, q) ==
    /\ p < q
    /\ RefKind(t, SigMatchAt(t, p)) \in ks
    /\ RefKind(t, SigMatchAt(t, q)) = "definition"

\* the iteration for a match of one of the kinds ks leaves the dict as it is
\* and the loop goes on
DropsCandidate(ks) ==
    (pc = "scan" /\ m # NoMatch /\ RefKind(txt, m) \in ks)
        => (functions' = functions /\ pc' = "scan")

\* when extract_functions returns, every definition that follows a match of
\* one of the kinds ks in the text is a key of the dict
KeepsLater(ks) ==
    pc = "extracted" =>
        LET early == {p \in SigPositions(txt) :
                        RefKind(txt, SigMatchAt(txt, p)) \in ks}
            defs == {q \in SigPositions(txt) :
                       RefKind(txt, SigMatchAt(txt, q)) = "definition"}
        IN  \A q \in defs :
                (\E p \in early : p < q)
                    => SigMatchAt(txt, q).name \in DictKeys(functions)

\* C4: a signature match whose ")" is not followed, after optional
\* whitespace, by "{" adds no entry and overwrites none, and every definition
\* later in the text is still extracted.
C4_DeclarationSkipped ==
    /\ [][DropsCandidate({"declaration"})]_vars
    /\ [](KeepsLater({"declaration"}))

\* a declaration, then a definition that was extracted
C4_Witness ==
    /\ pc = "extracted"
    /\ \E p \in SigPositions(txt) : \E q \in SigPositions(txt) :
          /\ LaterDefinition(txt, {"declaration"}, p, q)
          /\ SigMatchAt(txt, q).name \in DictKeys(functions)

Unmatched == {"unmatched_params", "unmatched_body"}

\* C5: a candidate whose "(" or "{" has no matching close is dropped: the
\* dict is unchanged by it, the loop goes on to the next candidate, and the
\* definitions later in the text are extracted.
C5_UnmatchedDropped ==
    /\ [][DropsCandidate(Unmatched)]_vars
    /\ [](KeepsLater(Unmatched))

\* an unmatched candidate of each kind, then a definition that was extracted
C5_Witness ==
    /\ pc = "extracted"
    /\ \E p \in SigPositions(txt) : \E q \in SigPositions(txt) :
          /\ LaterDefinition(txt, {"unmatched_body"}, p, q)
          /\ SigMatchAt(txt, q).name \in DictKeys(functions)

(***************************************************************************)
(* C6 .. C9.  What extract_call_graph returns.  The reference states the   *)
(* four drop rules and the call-like tokens of a body on the text itself.  *)
(***************************************************************************)

\* p is a literal prefix of name
IsPrefix(p, name) == Len(p) <= Len(name) /\ SubSeq(name, 1, Len(p)) = p

\* the pair (caller, callee) is excluded by the policy in force
Excluded(caller, callee) ==
    \/ callee \in ReservedWords
    \/ \E k \in 1..Len(exclude_prefixes) : IsPrefix(exclude_prefixes[k], callee)
    \/ (only_defined_callees /\ callee \notin DictKeys(functions))
    \/ (~include_self_calls /\ caller = callee)

\* body[p:q] is an identifier, whole, that optional whitespace and "(" follow
CallToken(body, p, q) ==
    /\ p < q
    /\ At(body, p) \in NameStart
    /\ \A k \in p..(q - 1) : At(body, k) \in WordChars
    /\ (p = 0 \/ At(body, p - 1) \notin WordChars)
    /\ q < Len(body)
    /\ At(body, q) \notin WordChars
    /\ \E r \in q..(Len(body) - 1) :
          /\ At(body, r) = "("
          /\ \A k \in q..(r - 1) : At(body, k) \in SpaceChars

\* the callees the body shows
CallTokens(body) ==
    {Slice(body, x[1], x[2]) :
        x \in {y \in (0..Len(body)) \X (0..Len(body)) :
                 CallToken(body, y[1], y[2])}}

\* the pairs (caller, callee) the bodies of the units show
Observed ==
    UNION {{<<functions[k].name, callee>> :
              callee \in CallTokens(functions[k].body)} :
           k \in 1..Len(functions)}

\* C6: the edges returned hold no pair the policy excludes: no reserved
\* callee, no callee with an excluded prefix, no undefined callee under
\* only_defined_callees, no self-call unless include_self_calls.
C6_NoExcludedEdge ==
    pc = "built" =>
        \A k \in 1..Len(edges) : ~Excluded(edges[k][1], edges[k][2])

\* an edge was returned, and a self-call and a call of a callee with an
\* excluded prefix were dropped, with only_defined_callees in force
C6_Witness ==
    /\ pc = "built"
    /\ Len(edges) > 0
    /\ only_defined_callees
    /\ ~include_self_calls
    /\ \E o \in Observed : o[1] = o[2]
    /\ \E o \in Observed :
          \E k \in 1..Len(exclude_prefixes) :
              IsPrefix(exclude_prefixes[k], o[2])

\* C7: the edges returned are exactly the observed pairs that the four drop
\* rules let through, each once.
C7_EdgesAreSurvivors ==
    pc = "built" =>
        /\ Items(edges) = {o \in Observed : ~Excluded(o[1], o[2])}
        /\ Cardinality(Items(edges)) = Len(edges)

\* a body calls the same callee twice, and the edge is there
C7_Witness ==
    /\ pc = "built"
    /\ \E k \in 1..Len(functions) :
          LET names == CallNames(functions[k].body, 0)
          IN  \E i \in 1..Len(names) : \E j \in 1..Len(names) :
                /\ i < j
                /\ names[i] = names[j]
                /\ <<functions[k].name, names[i]>> \in Items(edges)

\* b occurs in the sequence view[a]
InView(view, a, b) ==
    \E k \in 1..Len(view) : view[k].key = a /\ b \in Items(view[k].val)

\* the keys of the view are pairwise distinct, and no sequence of it is empty
\* or holds an item twice
WellFormedView(view) ==
    /\ \A j \in 1..Len(view) : \A k \in 1..Len(view) :
          view[j].key = view[k].key => j = k
    /\ \A k \in 1..Len(view) :
          /\ Len(view[k].val) > 0
          /\ Cardinality(Items(view[k].val)) = Len(view[k].val)

\* the names that occur in the result
ResultNames ==
    UNION {{edges[k][1], edges[k][2]} : k \in 1..Len(edges)}
      \cup UNION {{calls[k].key} \cup Items(calls[k].val) : k \in 1..Len(calls)}
      \cup UNION {{called_by[k].key} \cup Items(called_by[k].val) :
                    k \in 1..Len(called_by)}

\* C8: (a, b) is an edge if and only if b occurs in calls[a], if and only if
\* a occurs in called_by[b], each exactly once, and no view has a key with an
\* empty sequence.
C8_ViewsConsistent ==
    pc = "built" =>
        /\ \A a \in ResultNames : \A b \in ResultNames :
              /\ (<<a, b>> \in Items(edges)) <=> InView(calls, a, b)
              /\ (<<a, b>> \in Items(edges)) <=> InView(called_by, b, a)
        /\ Cardinality(Items(edges)) = Len(edges)
        /\ WellFormedView(calls)
        /\ WellFormedView(called_by)

\* a callee with two callers, one of which has two callees
C8_Witness ==
    /\ pc = "built"
    /\ \E k \in 1..Len(called_by) : Len(called_by[k].val) = 2
    /\ \E k \in 1..Len(calls) : Len(calls[k].val) = 2
    /\ \E k \in 1..Len(edges) : edges[k][1] # edges[k][2]

\* the list of edges q ascends strictly
AscendingEdges(q) == \A k \in 1..(Len(q) - 1) : PairLess(q[k], q[k + 1])

\* the list of names q ascends strictly
AscendingNames(q) == \A k \in 1..(Len(q) - 1) : StrLess(q[k], q[k + 1])

\* the view as a mapping, whatever the order of its keys
AsMap(view) == {<<view[k].key, view[k].val>> : k \in 1..Len(view)}

\* the dicts that hold the items of d in another order
Reorderings(d) ==
    {r \in [1..Len(d) -> Items(d)] : Items(r) = Items(d)}

\* C9: the edge list ascends in (caller, callee) and every adjacency sequence
\* ascends; a run that visits the same units in another order, and iterates
\* its sets in any order, returns the same edge list and the same adjacency
\* sequences.
C9_OrderIsLexicographic ==
    pc = "built" =>
        /\ AscendingEdges(edges)
        /\ \A k \in 1..Len(calls) : AscendingNames(calls[k].val)
        /\ \A k \in 1..Len(called_by) : AscendingNames(called_by[k].val)
        /\ \A r \in Reorderings(functions) :
              LET g == GraphSets(r, Policy)
              IN  /\ \A e \in Enumerations(g.edges) : SortedEdges(e) = edges
                  /\ \A v \in SortedViews(g.calls) : AsMap(v) = AsMap(calls)
                  /\ \A v \in SortedViews(g.called_by) :
                        AsMap(v) = AsMap(called_by)

\* the units are visited g first, and the edges returned start with f's
C9_Witness ==
    /\ pc = "built"
    /\ Len(functions) = 2
    /\ functions[1].name = <<"g">>
    /\ Len(edges) >= 3
    /\ edges[1][1] = <<"f">>
    /\ edges[Len(edges)][1] = <<"g">>

(***************************************************************************)
(* C10.  Two runs of the pipeline.                                         *)
(***************************************************************************)

Helper == <<"h", "e", "l", "p", "e", "r">>

Add == <<"a", "d", "d">>

LogData == <<"l", "o", "g", "D", "a", "t", "a">>

Mycall == <<"m", "y", "c", "a", "l", "l">>

Putchar == <<"p", "u", "t", "c", "h", "a", "r">>

\* the statement that calls name
CallOf(name, gap) == name \o gap \o <<"(", ")", ";">>

\* the bodies of logData: its four calls in every order
LogDataBodies ==
    UNION {{<<"{">> \o Flatten(cs) \o <<"}">> :
              cs \in Enumerations({CallOf(Helper, gap), CallOf(Add, <<>>),
                                   CallOf(Mycall, <<>>), CallOf(Putchar, gap)})} :
           gap \in {<<>>, <<" ">>}}

ScenarioDicts ==
    UNION {Enumerations({Unit(Helper, <<"{", "}">>),
                         Unit(Add, <<"{", "}">>),
                         Unit(LogData, b),
                         Unit(Mycall, <<"{">> \o CallOf(Helper, <<>>) \o <<"}">>)}) :
           b \in LogDataBodies}

ScenarioInit ==
    /\ pc = "graph"
    /\ code = <<>>
    /\ txt = <<>>
    /\ MatcherIdle
    /\ m = NoMatch
    /\ functions \in ScenarioDicts
    /\ RESERVED = ReservedWords
    /\ exclude_prefixes = <<<<"p", "u", "t">>>>
    /\ only_defined_callees = TRUE
    /\ include_self_calls = FALSE
    /\ edges = <<>>
    /\ calls = <<>>
    /\ called_by = <<>>
    /\ prev = NoResult
    /\ CobolIdle
    /\ ThreadIdle

ScenarioNext == BuildGraph

ScenarioSpec == ScenarioInit /\ [][ScenarioNext]_vars

(***************************************************************************)
(* C11.  The edges of the C scenario.                                      *)
(***************************************************************************)
ScenarioEdges ==
    << <<LogData, Add>>, <<LogData, Helper>>, <<LogData, Mycall>>,
       <<Mycall, Helper>> >>

\* C11: for the units helper, add, logData and mycall, logData calling
\* helper, add, mycall and putchar and mycall calling helper, the edges
\* returned under exclude_prefixes=["put"], only_defined_callees=True,
\* include_self_calls=False are exactly (logData, add), (logData, helper),
\* (logData, mycall), (mycall, helper), and none has the callee putchar.
C11_ScenarioEdges ==
    (/\ pc = "built"
     /\ DictKeys(functions) = {Helper, Add, LogData, Mycall})
        => /\ edges = ScenarioEdges
           /\ \A k \in 1..Len(edges) : edges[k][2] # Putchar

\* the scenario was run with logData the first unit visited, its call of
\* putchar before its other calls
C11_Witness ==
    /\ pc = "built"
    /\ Len(functions) = 4
    /\ functions[1].name = LogData
    /\ HasAt(functions[1].body, 1, Putchar)
    /\ Len(edges) = 4

(***************************************************************************)
(* The COBOL extractor (src/04.pyparser/ex02.py): PARA_RE, PERFORM_RE,     *)
(* CALL_RE, extract_cobol_units and extract_cobol_call_graph.              *)
(***************************************************************************)

\* [A-Za-z0-9\-]
CobolNameChars == Lower \cup Upper \cup Digit \cup {"-"}

SectionDot == <<"S", "E", "C", "T", "I", "O", "N", ".">>

PerformWord == <<"P", "E", "R", "F", "O", "R", "M">>

CallWord == <<"C", "A", "L", "L">>

\* PARA_RE.match at p, under re.MULTILINE: "^" holds at the start of the text
\* and after a newline; the name is the greedy run of name characters after
\* the leading whitespace, and whitespace must follow it
ParaMatchAt(s, p) ==
    IF p <= Len(s) /\ (p = 0 \/ At(s, p - 1) = NL)
    THEN LET j == Space0(s, p)
             k == SkipWhile(s, j, CobolNameChars)
             l == Space1(s, k)
         IN  IF k > j /\ l # -1
             THEN [start |-> p,
                   end |-> IF HasAt(s, l, SectionDot) THEN l + Len(SectionDot)
                           ELSE l,
                   name |-> Slice(s, j, k)]
             ELSE NoMatch
    ELSE NoMatch

\* PARA_RE.search from index from on: the leftmost match, the next one that
\* PARA_RE.finditer yields
ParaSearch(s, from) ==
    LET hits == {p \in from..Len(s) : ParaMatchAt(s, p) # NoMatch}
    IN  IF hits = {} THEN NoMatch
        ELSE ParaMatchAt(s, CHOOSE p \in hits : \A q \in hits : p <= q)

\* units[name] = {"start": start, "body": ""}
UnitSet(d, name, start) ==
    LET item == [name |-> name, start |-> start, body |-> <<>>]
    IN  IF name \in DictKeys(d)
        THEN [k \in 1..Len(d) |-> IF d[k].name = name THEN item ELSE d[k]]
        ELSE Append(d, item)

\* the first loop of extract_cobol_units, from the search index from on
RECURSIVE ParaLoop(_, _, _)
ParaLoop(d, s, from) ==
    LET found == ParaSearch(s, from)
    IN  IF found = NoMatch THEN d
        ELSE ParaLoop(UnitSet(d, found.name, found.end), s, found.end)

\* the second loop: the body of a unit runs from its start to the start of
\* the next key of the dict, to the end of the text for the last key
FillBodies(d, s) ==
    [i \in 1..Len(d) |->
        [d[i] EXCEPT !.body =
            Slice(s, d[i].start,
                  IF i = Len(d) THEN Len(s) ELSE d[i + 1].start)]]

extract_cobol_units(s) == FillBodies(ParaLoop(<<>>, s, 0), s)

\* str.upper() on one character
UpperOf(c) == IF c \in Lower THEN UpperSeq[IndexIn(LowerSeq, c)] ELSE c

\* s[i:i+len(w)] == w under re.IGNORECASE
HasAtIgnoreCase(s, i, w) ==
    /\ i >= 0
    /\ i + Len(w) <= Len(s)
    /\ \A k \in 1..Len(w) : UpperOf(s[i + k]) = UpperOf(w[k])

\* PERFORM_RE.match at p: \bPERFORM\s+([A-Za-z0-9\-]+)
PerformMatchAt(s, p) ==
    IF WordBoundary(s, p) /\ HasAtIgnoreCase(s, p, PerformWord)
    THEN LET l == Space1(s, p + Len(PerformWord))
             k == IF l = -1 THEN -1 ELSE SkipWhile(s, l, CobolNameChars)
         IN  IF l # -1 /\ k > l
             THEN [start |-> p, end |-> k, name |-> Slice(s, l, k)]
             ELSE NoMatch
    ELSE NoMatch

\* [m.group(1) for m in PERFORM_RE.finditer(body)], from index from on
RECURSIVE PerformNames(_, _)
PerformNames(s, from) ==
    LET hits == {p \in from..Len(s) : PerformMatchAt(s, p) # NoMatch}
    IN  IF hits = {} THEN <<>>
        ELSE LET found ==
                     PerformMatchAt(s, CHOOSE p \in hits : \A q \in hits : p <= q)
             IN  <<found.name>> \o PerformNames(s, found.end)

Quotes == {DQ, SQ}

\* CALL_RE.match at p: \bCALL\s+["\']?([A-Za-z0-9\-]+)["\']?
CobolCallMatchAt(s, p) ==
    IF WordBoundary(s, p) /\ HasAtIgnoreCase(s, p, CallWord)
    THEN LET l == Space1(s, p + Len(CallWord))
             q == IF l # -1 /\ l < Len(s) /\ At(s, l) \in Quotes THEN l + 1
                  ELSE l
             k == IF l = -1 THEN -1 ELSE SkipWhile(s, q, CobolNameChars)
         IN  IF l # -1 /\ k > q
             THEN [start |-> p,
                   end |-> IF k < Len(s) /\ At(s, k) \in Quotes THEN k + 1
                           ELSE k,
                   name |-> Slice(s, q, k)]
             ELSE NoMatch
    ELSE NoMatch

\* [m.group(1) for m in CALL_RE.finditer(body)], from index from on
RECURSIVE CobolCallNames(_, _)
CobolCallNames(s, from) ==
    LET hits == {p \in from..Len(s) : CobolCallMatchAt(s, p) # NoMatch}
    IN  IF hits = {} THEN <<>>
        ELSE LET found ==
                     CobolCallMatchAt(s, CHOOSE p \in hits : \A q \in hits : p <= q)
             IN  <<found.name>> \o CobolCallNames(s, found.end)

\* a loop over the PERFORM targets that adds every target, known or not
RECURSIVE ScanPerformsUnfiltered(_, _, _, _)
ScanPerformsUnfiltered(acc, caller, names, known) ==
    IF names = <<>> THEN acc
    ELSE ScanPerformsUnfiltered(AddEdge(acc, caller, Head(names)),
                                caller, Tail(names), known)

\* the loop over the PERFORM targets of one body: "if callee in units"
RECURSIVE ScanPerforms(_, _, _, _)
ScanPerforms(acc, caller, names, known) ==
    IF names = <<>> THEN acc
    ELSE ScanPerforms(IF Head(names) \in known
                      THEN AddEdge(acc, caller, Head(names))
                      ELSE acc,
                      caller, Tail(names), known)

\* the loop over the CALL targets of one body: every target is added
RECURSIVE ScanCalls(_, _, _)
ScanCalls(acc, caller, names) ==
    IF names = <<>> THEN acc
    ELSE ScanCalls(AddEdge(acc, caller, Head(names)), caller, Tail(names))

\* the outer loop, over units.items() from the k-th item on
RECURSIVE ScanCobolUnits(_, _, _)
ScanCobolUnits(acc, d, k) ==
    IF k > Len(d) THEN acc
    ELSE ScanCobolUnits(
             ScanCalls(ScanPerforms(acc, d[k].name,
                                    PerformNames(d[k].body, 0), DictKeys(d)),
                       d[k].name, CobolCallNames(d[k].body, 0)),
             d, k + 1)

\* the three sets when the loops of extract_cobol_call_graph end
CobolGraphSets(d) ==
    ScanCobolUnits([edges |-> {}, calls |-> <<>>, called_by |-> <<>>], d, 1)

\* extract_cobol_call_graph(code): the units, the loops, then the three
\* sorted results
CobolGraph ==
    /\ pc = "cobol"
    /\ units' = extract_cobol_units(code)
    /\ LET g == CobolGraphSets(units')
       IN  /\ edges' \in {SortedEdges(e) : e \in Enumerations(g.edges)}
           /\ calls' \in SortedViews(g.calls)
           /\ called_by' \in SortedViews(g.called_by)
    /\ pc' = "cobol_built"
    /\ UNCHANGED <<code, txt, matcherVars, extractVars, RESERVED, policyVars,
                   prev, threadVars>>

(***************************************************************************)
(* The COBOL scenario: a PROCEDURE DIVISION with the paragraphs MAIN-PARA, *)
(* READ-CUSTOMERS, CALC-AVERAGE and DB-UPDATE, each introduced by a line   *)
(* "NAME.", the three statements of MAIN-PARA in every order, the other    *)
(* paragraphs in every order, with and without the division header and     *)
(* indentation.                                                            *)
(***************************************************************************)
MainPara == <<"M", "A", "I", "N", "-", "P", "A", "R", "A">>

ReadCustomers == <<"R", "E", "A", "D", "-", "C", "U", "S", "T", "O", "M", "E", "R", "S">>

CalcAverage == <<"C", "A", "L", "C", "-", "A", "V", "E", "R", "A", "G", "E">>

DbUpdate == <<"D", "B", "-", "U", "P", "D", "A", "T", "E">>

ExtReport == <<"E", "X", "T", "-", "R", "E", "P", "O", "R", "T">>

\* the line that introduces the paragraph name
ParaLine(indent, name) == indent \o name \o <<".", NL>>

MainStatements(indent) ==
    { indent \o PerformWord \o <<" ">> \o ReadCustomers \o <<NL>>,
      indent \o PerformWord \o <<" ">> \o CalcAverage \o <<NL>>,
      indent \o CallWord \o <<" ">> \o <<DQ>> \o ExtReport \o <<DQ>> \o <<NL>> }

CobolScenarioTexts ==
    UNION {UNION {{header \o ParaLine(indent, MainPara) \o Flatten(ss) \o Flatten(ps) :
                     ss \in Enumerations(MainStatements(indent \o indent)),
                     ps \in Enumerations({ParaLine(indent, ReadCustomers) \o para_body,
                                          ParaLine(indent, CalcAverage) \o para_body,
                                          ParaLine(indent, DbUpdate) \o para_body})} :
                  header \in {<<>>, <<"P", "R", "O", "C", "E", "D", "U", "R", "E", " ", "D", "I", "V", "I", "S", "I", "O", "N", ".", NL>>}} :
           indent \in {<<>>, <<" ">>}, para_body \in {<<>>, <<" ", "E", "X", "I", "T", ".", NL>>}}

CobolScenarioInit ==
    /\ pc = "cobol"
    /\ code \in CobolScenarioTexts
    /\ txt = <<>>
    /\ MatcherIdle
    /\ ExtractIdle
    /\ GraphIdle
    /\ ThreadIdle

CobolScenarioNext == CobolGraph

CobolScenarioSpec == CobolScenarioInit /\ [][CobolScenarioNext]_vars

(***************************************************************************)
(* C12.  The edges of the COBOL scenario.                                  *)
(***************************************************************************)

\* C12: for the scenario source, the edge list returned by
\* extract_cobol_call_graph contains (MAIN-PARA, READ-CUSTOMERS),
\* (MAIN-PARA, CALC-AVERAGE) and (MAIN-PARA, EXT-REPORT).
C12_CobolScenarioEdges ==
    pc = "cobol_built" =>
        {<<MainPara, ReadCustomers>>, <<MainPara, CalcAverage>>,
         <<MainPara, ExtReport>>} \subseteq Items(edges)

(***************************************************************************)
(* C13.  The signature and the body of a recorded unit.                    *)
(***************************************************************************)

\* the item is cut out of the text t at a signature match of its name: the
\* signature runs from the start of the match through the ")" that closes
\* the parameter list, the body from the "{" that follows it through the "}"
\* that closes that "{", by the lexical reference and by the matcher alike
WellCut(t, item) ==
    \E p \in SigPositions(t) :
        LET sig == SigMatchAt(t, p)
            p_close == TrueClose(t, sig.end - 1, "(", ")")
            b_open == BraceAfter(t, p_close)
            b_close == TrueClose(t, b_open, "{", "}")
        IN  /\ sig.name = item.name
            /\ p_close # None
            /\ b_open # -1
            /\ b_close # None
            /\ b_close = _find_matching(t, b_open, "{", "}")
            /\ item.signature = Strip(Slice(t, p, p_close + 1))
            /\ item.body = Slice(t, b_open, b_close + 1)

\* C13: every unit recorded by extract_functions has for body the slice of
\* the text from its opening "{" through the "}" paired with it, both
\* inclusive, and for signature the text from the start of the signature
\* match through the closing ")", trimmed; the body starts with "{" and ends
\* with "}".
C13_BodyIsBracedSlice ==
    \A k \in 1..Len(functions) :
        /\ WellCut(txt, functions[k])
        /\ Head(functions[k].body) = "{"
        /\ functions[k].body[Len(functions[k].body)] = "}"

\* a unit was recorded whose body holds a nested pair of braces
C13_Witness ==
    /\ pc = "extracted"
    /\ \E k \in 1..Len(functions) :
          /\ Len(functions[k].body) >= 5
          /\ \E i \in 2..(Len(functions[k].body) - 1) :
                functions[k].body[i] = "{"

(***************************************************************************)
(* The extractor on texts that define a name more than once: the actions   *)
(* of extract_functions, on concatenations of definitions of f with two    *)
(* bodies, a definition of g, a prototype and unclosed candidates of f.    *)
(***************************************************************************)
MaxRedefPieces == 3

RedefPieces ==
    { <<"i", "n", "t", " ", "f", "(", ")", " ", "{", "}">>,
      <<"i", "n", "t", " ", "f", "(", ")", " ", "{", ";", "}">>,
      <<"i", "n", "t", " ", "g", "(", ")", " ", "{", "}">>,
      <<"i", "n", "t", " ", "f", "(", ")">>,
      <<"i", "n", "t", " ", "f", "(">>,
      <<" ", "{">> }

RedefInit ==
    /\ pc = "extract"
    /\ code \in {Flatten(ps) : ps \in TextsUpTo(RedefPieces, MaxRedefPieces)}
    /\ txt = <<>>
    /\ MatcherIdle
    /\ ExtractIdle
    /\ GraphIdle
    /\ ThreadIdle

RedefNext == ExtractNext

RedefSpec == RedefInit /\ [][RedefNext]_vars

(***************************************************************************)
(* C14.  One entry per name, that of the last definition.  The reference   *)
(* is the sequence of matches SIG_RE.finditer yields, each classified      *)
(* lexically by RefKind.                                                   *)
(***************************************************************************)

\* the matches SIG_RE.finditer(t) yields, from the search index from on
RECURSIVE SigMatches(_, _)
SigMatches(t, from) ==
    LET sig == SigSearch(t, from)
    IN  IF sig = NoMatch THEN <<>>
        ELSE <<sig>> \o SigMatches(t, sig.end)

\* the places in the sequence ms of the definitions of name in t
DefinitionsOf(t, ms, name) ==
    {k \in 1..Len(ms) : ms[k].name = name /\ RefKind(t, ms[k]) = "definition"}

\* the signature and the body of the definition that the match sig starts
CutAt(t, sig) ==
    LET p_close == TrueClose(t, sig.end - 1, "(", ")")
        b_open == BraceAfter(t, p_close)
    IN  [name |-> sig.name,
         signature |-> Strip(Slice(t, sig.start, p_close + 1)),
         body |-> Slice(t, b_open, TrueClose(t, b_open, "{", "}") + 1)]

\* C14: the names of the dict extract_functions returns are pairwise
\* distinct; a name is a key exactly when the text holds a definition of it,
\* and its entry is the signature and body of the last definition of it in
\* text order, whatever prototypes or unmatched candidates of the name come
\* after it.
C14_LastDefinitionWins ==
    pc = "extracted" =>
        LET ms == SigMatches(txt, 0)
        IN  /\ \A j \in 1..Len(functions) : \A k \in 1..Len(functions) :
                  functions[j].name = functions[k].name => j = k
            /\ DictKeys(functions) =
                  {ms[k].name : k \in {i \in 1..Len(ms) :
                                         RefKind(txt, ms[i]) = "definition"}}
            /\ \A name \in DictKeys(functions) :
                  LET defs == DefinitionsOf(txt, ms, name)
                      last == CHOOSE k \in defs : \A i \in defs : i <= k
                  IN  DictGet(functions, name) = CutAt(txt, ms[last])

\* two definitions of a name with different bodies, then a candidate of the
\* name that is no definition: the entry is that of the second definition
C14_Witness ==
    /\ pc = "extracted"
    /\ LET ms == SigMatches(txt, 0)
       IN  \E i \in 1..Len(ms) : \E j \in 1..Len(ms) : \E k \in 1..Len(ms) :
              /\ i < j
              /\ j < k
              /\ ms[i].name = ms[j].name
              /\ ms[j].name = ms[k].name
              /\ RefKind(txt, ms[i]) = "definition"
              /\ RefKind(txt, ms[j]) = "definition"
              /\ RefKind(txt, ms[k]) # "definition"
              /\ CutAt(txt, ms[i]).body # CutAt(txt, ms[j]).body
              /\ DictGet(functions, ms[j].name) = CutAt(txt, ms[j])

(***************************************************************************)
(* The singletons of src/03.singleton, run by threads.  A thread takes one *)
(* statement at a time.  An object is its index in the heap; a file object *)
(* opened in mode 'a' keeps what is written to it in its buffer, and       *)
(* closing it appends the buffer to the file.                              *)
(***************************************************************************)
MaxThreads == 3

Threads == 1..MaxThreads

\* threading.Lock.acquire returns when no thread holds the lock
LockFree(l) == l = None

\* a with-statement on the lock that does not wait for it
AuditLockIgnored(l) == TRUE

\* "with cls._lock" and "with self._lock" of FileAuditManager
AuditLockFree(l) == LockFree(l)

\* a with-statement on the lock that does not wait for it
GeneratorLockIgnored(l) == TRUE

\* "with cls._lock" and "with self._lock" of NumberGenerator
GeneratorLockFree(l) == LockFree(l)

\* no file object
NoFile == [name |-> "", buffer |-> <<>>]

\* open(name, 'a')
Open(name) == [name |-> name, buffer |-> <<>>]

\* file.write(line)
Write(file, line) == [file EXCEPT !.buffer = Append(@, line)]

\* what closing a file object opened in mode 'a' leaves in the file
Flush(content, buffer) == content \o buffer

\* f"Log started: {datetime.datetime.now()}\n"
Header == <<"Log started">>

\* f"{timestamp}: {message}\n"
Entry(timestamp, message) == <<timestamp, message>>

\* the locals of a thread before it runs; its message is its own
Locals(t) ==
    [file_name |-> "", message |-> t, self |-> None, timestamp |-> "",
     file |-> NoFile, number |-> None, loaded |-> None]

\* the thread t goes from the statement from to the statement to
Goes(t, from, to) ==
    /\ tpc[t] = from
    /\ tpc' = [tpc EXCEPT ![t] = to]

sequentialVars ==
    <<code, txt, matcherVars, extractVars, RESERVED, policyVars, graphVars,
      cobolVars>>

(***************************************************************************)
(* FileAuditManager (fileauditmanager.py): each thread runs                *)
(* test_file_audit_manager, with a file name of its own choice.            *)
(***************************************************************************)
FileNames == {"audit.log", "test_audit.log"}

\* logger = FileAuditManager(file_name): the call of __new__
NewCall(t) ==
    /\ Goes(t, "start", "new_lock")
    /\ \E f \in FileNames : local' = [local EXCEPT ![t].file_name = f]
    /\ UNCHANGED <<pc, lock, instance, heap, files, sequentialVars>>

\* with cls._lock:
NewAcquire(t) ==
    /\ Goes(t, "new_lock", "new_test")
    /\ AuditLockFree(lock)
    /\ lock' = t
    /\ UNCHANGED <<pc, instance, heap, files, local, sequentialVars>>

\* if cls._instance is None:
NewTest(t) ==
    /\ Goes(t, "new_test", IF instance = None THEN "new_alloc" ELSE "new_unlock")
    /\ UNCHANGED <<pc, lock, instance, heap, files, local, sequentialVars>>

\* cls._instance = super(FileAuditManager, cls).__new__(cls)
NewAllocate(t) ==
    /\ Goes(t, "new_alloc", "new_name")
    /\ heap' = Append(heap, [_file_name |-> ""])
    /\ instance' = Len(heap) + 1
    /\ UNCHANGED <<pc, lock, files, local, sequentialVars>>

\* cls._instance._file_name = file_name
NewSetFileName(t) ==
    /\ Goes(t, "new_name", "new_open")
    /\ heap' = [heap EXCEPT ![instance]._file_name = local[t].file_name]
    /\ UNCHANGED <<pc, lock, instance, files, local, sequentialVars>>

\* with open(cls._instance._file_name, 'a') as file:
NewOpen(t) ==
    /\ Goes(t, "new_open", "new_write")
    /\ local' = [local EXCEPT ![t].file = Open(heap[instance]._file_name)]
    /\ UNCHANGED <<pc, lock, instance, heap, files, sequentialVars>>

\* file.write(f"Log started: {datetime.datetime.now()}\n")
NewWrite(t) ==
    /\ Goes(t, "new_write", "new_close")
    /\ local' = [local EXCEPT ![t].file = Write(@, Header)]
    /\ UNCHANGED <<pc, lock, instance, heap, files, sequentialVars>>

\* the end of the with-statement on the file
NewClose(t) ==
    /\ Goes(t, "new_close", "new_unlock")
    /\ files' = [files EXCEPT ![local[t].file.name] =
                    Flush(@, local[t].file.buffer)]
    /\ local' = [local EXCEPT ![t].file = NoFile]
    /\ UNCHANGED <<pc, lock, instance, heap, sequentialVars>>

\* the end of the with-statement on the lock
NewRelease(t) ==
    /\ Goes(t, "new_unlock", "new_return")
    /\ lock' = None
    /\ UNCHANGED <<pc, instance, heap, files, local, sequentialVars>>

\* return cls._instance, and the assignment to logger
NewReturn(t) ==
    /\ Goes(t, "new_return", "log_lock")
    /\ local' = [local EXCEPT ![t].self = instance]
    /\ UNCHANGED <<pc, lock, instance, heap, files, sequentialVars>>

\* logger.log_message(message): with self._lock:
LogAcquire(t) ==
    /\ Goes(t, "log_lock", "log_time")
    /\ AuditLockFree(lock)
    /\ lock' = t
    /\ UNCHANGED <<pc, instance, heap, files, local, sequentialVars>>

\* timestamp = datetime.datetime.now().strftime('%Y%m-%d %H:%M:%S')
LogTimestamp(t) ==
    /\ Goes(t, "log_time", "log_open")
    /\ local' = [local EXCEPT ![t].timestamp = "timestamp"]
    /\ UNCHANGED <<pc, lock, instance, heap, files, sequentialVars>>

\* with open(self._file_name, 'a') as file:
LogOpen(t) ==
    /\ Goes(t, "log_open", "log_write")
    /\ local' = [local EXCEPT ![t].file = Open(heap[local[t].self]._file_name)]
    /\ UNCHANGED <<pc, lock, instance, heap, files, sequentialVars>>

\* file.write(f"{timestamp}: {message}\n")
LogWrite(t) ==
    /\ Goes(t, "log_write", "log_close")
    /\ local' = [local EXCEPT ![t].file =
                    Write(@, Entry(local[t].timestamp, local[t].message))]
    /\ UNCHANGED <<pc, lock, instance, heap, files, sequentialVars>>

\* the end of the with-statement on the file
LogClose(t) ==
    /\ Goes(t, "log_close", "log_unlock")
    /\ files' = [files EXCEPT ![local[t].file.name] =
                    Flush(@, local[t].file.buffer)]
    /\ local' = [local EXCEPT ![t].file = NoFile]
    /\ UNCHANGED <<pc, lock, instance, heap, sequentialVars>>

\* the end of the with-statement on the lock, and the return
LogRelease(t) ==
    /\ Goes(t, "log_unlock", "done")
    /\ lock' = None
    /\ UNCHANGED <<pc, instance, heap, files, local, sequentialVars>>

AuditInit ==
    /\ pc = "threads"
    /\ code = <<>>
    /\ txt = <<>>
    /\ MatcherIdle
    /\ ExtractIdle
    /\ GraphIdle
    /\ tpc = [t \in Threads |-> "start"]
    /\ lock = None
    /\ instance = None
    /\ heap = <<>>
    /\ files = [f \in FileNames |-> <<>>]
    /\ local = [t \in Threads |-> Locals(t)]

AuditNext ==
    \E t \in Threads :
        \/ NewCall(t)
        \/ NewAcquire(t)
        \/ NewTest(t)
        \/ NewAllocate(t)
        \/ NewSetFileName(t)
        \/ NewOpen(t)
        \/ NewWrite(t)
        \/ NewClose(t)
        \/ NewRelease(t)
        \/ NewReturn(t)
        \/ LogAcquire(t)
        \/ LogTimestamp(t)
        \/ LogOpen(t)
        \/ LogWrite(t)
        \/ LogClose(t)
        \/ LogRelease(t)

AuditSpec == AuditInit /\ [][AuditNext]_vars

(***************************************************************************)
(* C15.  FileAuditManager is created once.                                 *)
(***************************************************************************)

\* the statements of the creation branch of __new__
CreationBranch == {"new_alloc", "new_name", "new_open", "new_write", "new_close"}

\* the statements after __new__ has returned
Returned == {"log_lock", "log_time", "log_open", "log_write", "log_close",
             "log_unlock", "done"}

\* the lines of all files that are the header
Headers ==
    {x \in FileNames \X (1..(2 * MaxThreads)) :
        x[2] <= Len(files[x[1]]) /\ files[x[1]][x[2]] = Header}

\* C15: under every interleaving of the threads that call
\* FileAuditManager(...), the creation branch runs at most once (one object
\* is allocated, one thread at most is in the branch, one header line is
\* written) and every call returns the same instance.
C15_CreatedOnce ==
    /\ Len(heap) <= 1
    /\ Cardinality({t \in Threads : tpc[t] \in CreationBranch}) <= 1
    /\ (Len(heap) = 1 => \A t \in Threads : tpc[t] \notin {"new_alloc"})
    /\ Cardinality(Headers) <= 1
    /\ \A t \in Threads : tpc[t] \in Returned => local[t].self = 1
    /\ \A t \in Threads : \A u \in Threads :
          (tpc[t] \in Returned /\ tpc[u] \in Returned)
              => local[t].self = local[u].self

\* every thread has called FileAuditManager, not all with the same file
\* name, and holds the instance it returned; the header is written
C15_Witness ==
    /\ \A t \in Threads : tpc[t] \in Returned /\ local[t].self = 1
    /\ \E t \in Threads : \E u \in Threads :
          local[t].file_name # local[u].file_name
    /\ Cardinality(Headers) = 1

(***************************************************************************)
(* C16.  The entries log_message writes.                                   *)
(***************************************************************************)

\* the threads that hold a file object: between the open and the close
Writers == {t \in Threads : local[t].file # NoFile}

\* the lines of all files that are the entry of the thread t
EntriesOf(t) ==
    {x \in FileNames \X (1..(2 * MaxThreads)) :
        /\ x[2] <= Len(files[x[1]])
        /\ files[x[1]][x[2]] = Entry("timestamp", local[t].message)}

\* the threads whose call of log_message has written its entry
Logged == {t \in Threads : tpc[t] \in {"log_unlock", "done"}}

\* C16: under every interleaving of the callers of log_message, at most one
\* thread at a time is between opening the log file and finishing its write,
\* and it holds the lock; every line of a file is a whole header or a whole
\* entry (timestamp, message), and every call has appended exactly one
\* entry, none is lost.
C16_EntriesWhole ==
    /\ Cardinality(Writers) <= 1
    /\ \A t \in Writers : lock = t
    /\ \A f \in FileNames : \A k \in 1..Len(files[f]) :
          \/ files[f][k] = Header
          \/ \E t \in Threads : files[f][k] = Entry("timestamp", local[t].message)
    /\ \A t \in Threads :
          Cardinality(EntriesOf(t)) = (IF t \in Logged THEN 1 ELSE 0)

\* a thread is writing its entry while another waits for the lock in
\* log_message and a third has logged
C16_Witness ==
    /\ \E t \in Threads : tpc[t] = "log_close"
    /\ \E t \in Threads : tpc[t] = "log_lock"
    /\ \E t \in Threads : tpc[t] = "done" /\ Cardinality(EntriesOf(t)) = 1

(***************************************************************************)
(* C18.  The file the entries go to.                                       *)
(***************************************************************************)

\* C18: for every call FileAuditManager(f), the messages logged through the
\* object it returns are appended to the file f.
C18_LogsToArgument ==
    \A t \in Logged :
        \E k \in 1..Len(files[local[t].file_name]) :
            files[local[t].file_name][k] = Entry("timestamp", local[t].message)

(***************************************************************************)
(* The lock-protected NumberGenerator (numberGenerator2.py): each thread   *)
(* runs test_singleton_thread_safe.  The object reads _current_number from *)
(* the class, 0, until "+=" has stored it on the object.                   *)
(***************************************************************************)

\* the value "self._current_number += 1" stores, for the value it loaded
Incremented(n) == n + 1

\* generator = NumberGenerator(): the call of __new__
GenCall(t) ==
    /\ Goes(t, "start", "gen_lock")
    /\ UNCHANGED <<pc, lock, instance, heap, files, local, sequentialVars>>

\* with cls._lock:
GenAcquire(t) ==
    /\ Goes(t, "gen_lock", "gen_test")
    /\ GeneratorLockFree(lock)
    /\ lock' = t
    /\ UNCHANGED <<pc, instance, heap, files, local, sequentialVars>>

\* if cls._instance is None:
GenTest(t) ==
    /\ Goes(t, "gen_test", IF instance = None THEN "gen_alloc" ELSE "gen_unlock")
    /\ UNCHANGED <<pc, lock, instance, heap, files, local, sequentialVars>>

\* cls._instance = super().__new__(cls)
GenAllocate(t) ==
    /\ Goes(t, "gen_alloc", "gen_unlock")
    /\ heap' = Append(heap, [_current_number |-> 0])
    /\ instance' = Len(heap) + 1
    /\ UNCHANGED <<pc, lock, files, local, sequentialVars>>

\* the end of the with-statement on the lock
GenRelease(t) ==
    /\ Goes(t, "gen_unlock", "gen_return")
    /\ lock' = None
    /\ UNCHANGED <<pc, instance, heap, files, local, sequentialVars>>

\* return cls._instance, and the assignment to generator
GenReturn(t) ==
    /\ Goes(t, "gen_return", "next_lock")
    /\ local' = [local EXCEPT ![t].self = instance]
    /\ UNCHANGED <<pc, lock, instance, heap, files, sequentialVars>>

\* generator.get_next_number(): with self._lock:
NextAcquire(t) ==
    /\ Goes(t, "next_lock", "next_read")
    /\ GeneratorLockFree(lock)
    /\ lock' = t
    /\ UNCHANGED <<pc, instance, heap, files, local, sequentialVars>>

\* number = self._current_number
NextRead(t) ==
    /\ Goes(t, "next_read", "next_load")
    /\ local' = [local EXCEPT ![t].number = heap[local[t].self]._current_number]
    /\ UNCHANGED <<pc, lock, instance, heap, files, sequentialVars>>

\* self._current_number += 1: the load
NextLoad(t) ==
    /\ Goes(t, "next_load", "next_store")
    /\ local' = [local EXCEPT ![t].loaded = heap[local[t].self]._current_number]
    /\ UNCHANGED <<pc, lock, instance, heap, files, sequentialVars>>

\* self._current_number += 1: the store
NextStore(t) ==
    /\ Goes(t, "next_store", "next_unlock")
    /\ heap' = [heap EXCEPT ![local[t].self]._current_number =
                   Incremented(local[t].loaded)]
    /\ UNCHANGED <<pc, lock, instance, files, local, sequentialVars>>

\* the end of the with-statement on the lock, and "return number"
NextRelease(t) ==
    /\ Goes(t, "next_unlock", "done")
    /\ lock' = None
    /\ UNCHANGED <<pc, instance, heap, files, local, sequentialVars>>

GeneratorInit ==
    /\ pc = "threads"
    /\ code = <<>>
    /\ txt = <<>>
    /\ MatcherIdle
    /\ ExtractIdle
    /\ GraphIdle
    /\ tpc = [t \in Threads |-> "start"]
    /\ lock = None
    /\ instance = None
    /\ heap = <<>>
    /\ files = <<>>
    /\ local = [t \in Threads |-> Locals(t)]

GeneratorNext ==
    \E t \in Threads :
        \/ GenCall(t)
        \/ GenAcquire(t)
        \/ GenTest(t)
        \/ GenAllocate(t)
        \/ GenRelease(t)
        \/ GenReturn(t)
        \/ NextAcquire(t)
        \/ NextRead(t)
        \/ NextLoad(t)
        \/ NextStore(t)
        \/ NextRelease(t)

GeneratorSpec == GeneratorInit /\ [][GeneratorNext]_vars

(***************************************************************************)
(* C17.  The numbers the lock-protected generator returns.                 *)
(***************************************************************************)

\* the threads whose call of NumberGenerator() has returned
Constructed ==
    {t \in Threads : tpc[t] \in {"next_lock", "next_read", "next_load",
                                 "next_store", "next_unlock", "done"}}

\* the threads whose call of get_next_number has returned
Numbered == {t \in Threads : tpc[t] = "done"}

\* C17: under every interleaving of the threads that each construct
\* NumberGenerator() and call get_next_number() once, the threads share one
\* instance, the numbers returned are pairwise distinct and are exactly
\* 0 .. k-1 for the k calls that have returned, and the counter is N after
\* all N calls.
C17_NumbersDistinct ==
    /\ Len(heap) <= 1
    /\ \A t \in Constructed : local[t].self = 1
    /\ \A t \in Numbered : \A u \in Numbered :
          local[t].number = local[u].number => t = u
    /\ {local[t].number : t \in Numbered} = 0..(Cardinality(Numbered) - 1)
    /\ (Numbered = Threads => heap[1]._current_number = MaxThreads)

\* all threads have their number, and the threads did not get them in the
\* order of their names
C17_Witness ==
    /\ Numbered = Threads
    /\ heap[1]._current_number = MaxThreads
    /\ local[1].number = MaxThreads - 1

(***************************************************************************)
(* C19, C20.  The scrubber against a scanner that reads the text once,     *)
(* left to right: at each index outside every region it recognises, in     *)
(* this order, a block comment, a line comment, a double-quoted literal    *)
(* and a single-quoted literal, and goes on after the region.              *)
(***************************************************************************)

\* the index of the "/*" that starts a block comment never closed, reading
\* from the index i on, i being outside every region; -1 if there is none
RECURSIVE UnterminatedComment(_, _)
UnterminatedComment(s, i) ==
    IF i >= Len(s) THEN -1
    ELSE IF HasAt(s, i, <<"/", "*">>)
         THEN LET e == Find(s, <<"*", "/">>, i + 2)
              IN  IF e = -1 THEN i ELSE UnterminatedComment(s, e + 2)
    ELSE IF HasAt(s, i, <<"/", "/">>)
         THEN UnterminatedComment(s, LineEnd(s, i + 2))
    ELSE IF At(s, i) \in {DQ, SQ} /\ LiteralClose(s, i + 1, At(s, i)) # -1
         THEN UnterminatedComment(s, LiteralClose(s, i + 1, At(s, i)) + 1)
    ELSE UnterminatedComment(s, i + 1)

\* C19: when the text holds a block comment that is never closed, the
\* scrubber returns what it returns for the text before that comment:
\* everything from the "/*" to the end of the text is removed.
C19_UnterminatedRemoved ==
    (pc = "scrubbed" /\ UnterminatedComment(code, 0) # -1)
        => txt = strip_comments_and_strings(
                     Slice(code, 0, UnterminatedComment(code, 0)))

\* what the single-pass scanner returns for the text from the index i on
RECURSIVE SinglePass(_, _)
SinglePass(s, i) ==
    IF i >= Len(s) THEN <<>>
    ELSE IF HasAt(s, i, <<"/", "*">>) /\ Find(s, <<"*", "/">>, i + 2) # -1
         THEN SinglePass(s, Find(s, <<"*", "/">>, i + 2) + 2)
    ELSE IF HasAt(s, i, <<"/", "/">>)
         THEN SinglePass(s, LineEnd(s, i + 2))
    ELSE IF At(s, i) \in {DQ, SQ} /\ LiteralClose(s, i + 1, At(s, i)) # -1
         THEN <<At(s, i), At(s, i)>>
                  \o SinglePass(s, LiteralClose(s, i + 1, At(s, i)) + 1)
    ELSE <<At(s, i)>> \o SinglePass(s, i + 1)

\* C20: on every text the scrubber returns what the single-pass scanner
\* returns: a "//" or "/*" inside a literal starts no comment, a quote
\* inside a comment starts no literal.
C20_EqualsSinglePass ==
    pc = "scrubbed" => txt = SinglePass(code, 0)

(***************************************************************************)
(* The scrubber on texts of several lines: concatenations of comment       *)
(* markers, newlines, a quote and a token.                                 *)
(***************************************************************************)
MaxLinePieces == 4

LinePieces ==
    { <<"/", "*">>, <<"*", "/">>, <<"/", "/">>, <<NL>>, <<DQ>>, <<"a">> }

LineInit ==
    /\ pc = "scrub"
    /\ code \in {Flatten(ps) : ps \in TextsUpTo(LinePieces, MaxLinePieces)}
    /\ txt = <<>>
    /\ MatcherIdle
    /\ ExtractIdle
    /\ GraphIdle
    /\ ThreadIdle

LineNext == Scrub

LineSpec == LineInit /\ [][LineNext]_vars

(***************************************************************************)
(* C21.  The lines of the scrubbed text.                                   *)
(***************************************************************************)

\* the number of newlines of the text s
Newlines(s) == Cardinality({k \in 1..Len(s) : s[k] = NL})

\* C21: the scrubbed text has as many newlines as the input: the newlines
\* inside a block comment are kept, and the removal of a line comment stops
\* before the newline that ends it.
C21_LinesPreserved ==
    pc = "scrubbed" => Newlines(txt) = Newlines(code)

(***************************************************************************)
(* Literals with escapes: one call of the scrubber or of the matcher on a  *)
(* text of quotes of one kind, backslashes, parentheses and newlines; the  *)
(* matcher starts at an opening parenthesis at index 0.                    *)
(***************************************************************************)
MaxEscapeLen == 5

EscapeChars(q) == {q, BS, "(", ")", NL}

EscapeInit ==
    /\ \E q \in {DQ, SQ} : code \in TextsUpTo(EscapeChars(q), MaxEscapeLen)
    /\ \/ /\ pc = "scrub"
          /\ MatcherIdle
       \/ /\ pc = "match"
          /\ HasAt(code, 0, <<"(">>)
          /\ MatcherIdle
    /\ txt = <<>>
    /\ ExtractIdle
    /\ GraphIdle
    /\ ThreadIdle

EscapeNext == Scrub \/ Match

EscapeSpec == EscapeInit /\ [][EscapeNext]_vars

(***************************************************************************)
(* C22.  Escapes inside literals.  The reference counts backslashes: the   *)
(* quote that ends the literal whose content starts at j is the first one  *)
(* preceded, inside the content, by an even number of backslashes.         *)
(***************************************************************************)

\* the number of consecutive backslashes that end just before index k and
\* start at index j or later
BackslashesBefore(s, j, k) ==
    LET runs == {r \in 0..(k - j) : \A x \in (k - r)..(k - 1) : At(s, x) = BS}
    IN  CHOOSE r \in runs : \A o \in runs : o <= r

\* the quote that ends the literal whose content starts at j, -1 if none
ParityClose(s, j, q) ==
    LET ends == {k \in j..(Len(s) - 1) :
                    /\ At(s, k) = q
                    /\ BackslashesBefore(s, j, k) % 2 = 0
                    /\ \A x \in j..(k - 1) :
                          At(s, x) = q => BackslashesBefore(s, j, x) % 2 = 1}
    IN  IF ends = {} THEN -1 ELSE CHOOSE k \in ends : TRUE

\* the text with the content of every literal removed, from index i on
RECURSIVE ParityScrub(_, _)
ParityScrub(s, i) ==
    IF i >= Len(s) THEN <<>>
    ELSE IF At(s, i) \in {DQ, SQ} /\ ParityClose(s, i + 1, At(s, i)) # -1
         THEN <<At(s, i), At(s, i)>>
                  \o ParityScrub(s, ParityClose(s, i + 1, At(s, i)) + 1)
         ELSE <<At(s, i)>> \o ParityScrub(s, i + 1)

\* the indices >= i outside the literals, i being outside them; a literal
\* that is not closed runs to the end of the text
RECURSIVE ParityOutside(_, _)
ParityOutside(s, i) ==
    IF i >= Len(s) THEN {}
    ELSE IF At(s, i) \in {DQ, SQ}
         THEN LET c == ParityClose(s, i + 1, At(s, i))
              IN  IF c = -1 THEN {} ELSE ParityOutside(s, c + 1)
    ELSE {i} \cup ParityOutside(s, i + 1)

\* the parenthesis that closes the one at start, counting the parentheses
\* outside the literals only; None if it is not closed
ParityMatch(s, start) ==
    LET out == ParityOutside(s, start)
        depth(r) == Cardinality({k \in out : k <= r /\ At(s, k) = "("})
                      - Cardinality({k \in out : k <= r /\ At(s, k) = ")"})
        cands == {r \in out : At(s, r) = ")" /\ depth(r) = 0}
    IN  IF cands = {} THEN None
        ELSE CHOOSE r \in cands : \A o \in cands : r <= o

\* C22: in the scrubber and in the matcher a quote preceded by an odd number
\* of backslashes is content of the literal and one preceded by an even
\* number ends it: the scrubber leaves nothing of a literal but its two
\* quotes, and the matcher counts no parenthesis inside a literal.
C22_EscapesRespected ==
    /\ pc = "scrubbed" => txt = ParityScrub(code, 0)
    /\ pc = "matched" => result = ParityMatch(code, start_idx)

(***************************************************************************)
(* The extractor on texts with comments and literals: the actions of       *)
(* extract_functions on concatenations of comment markers, a quote, a      *)
(* newline and pieces of C with a signature.                               *)
(***************************************************************************)
MaxMasqueradePieces == 3

MasqueradePieces ==
    { <<"/", "*">>, <<"*", "/">>, <<"/", "/">>, <<NL>>, <<DQ>>,
      <<"i", "n", "t", " ", "f", "(", ")", " ", "{", "}">>,
      <<"i", "n", "t", " ", "g", "(", ")", " ", "{">>,
      <<"i", "n", "t", " ", "f", "(", ")">>,
      <<"i", "n", "t", " ", "f", "(">> }

MasqueradeInit ==
    /\ pc = "extract"
    /\ code \in {Flatten(ps) :
                    ps \in TextsUpTo(MasqueradePieces, MaxMasqueradePieces)}
    /\ txt = <<>>
    /\ MatcherIdle
    /\ ExtractIdle
    /\ GraphIdle
    /\ ThreadIdle

MasqueradeNext == ExtractNext

MasqueradeSpec == MasqueradeInit /\ [][MasqueradeNext]_vars

(***************************************************************************)
(* C23.  Definitions inside comments and literals.  The reference is the   *)
(* text a C scanner leaves: read once, left to right, without the comments *)
(* (a block comment never closed runs to the end of the text) and without  *)
(* the content of the literals.                                            *)
(***************************************************************************)

\* the text outside the comments and the content of the literals, from i on
RECURSIVE CodeOutside(_, _)
CodeOutside(s, i) ==
    IF i >= Len(s) THEN <<>>
    ELSE IF HasAt(s, i, <<"/", "*">>)
         THEN LET e == Find(s, <<"*", "/">>, i + 2)
              IN  IF e = -1 THEN <<>> ELSE CodeOutside(s, e + 2)
    ELSE IF HasAt(s, i, <<"/", "/">>)
         THEN CodeOutside(s, LineEnd(s, i + 2))
    ELSE IF At(s, i) \in {DQ, SQ} /\ ClosingQuote(s, i + 1, At(s, i)) # -1
         THEN <<At(s, i), At(s, i)>>
                  \o CodeOutside(s, ClosingQuote(s, i + 1, At(s, i)) + 1)
    ELSE <<At(s, i)>> \o CodeOutside(s, i + 1)

\* the names that have a signature outside the comments and literals of s
NamesOutside(s) ==
    LET ms == SigMatches(CodeOutside(s, 0), 0)
    IN  {ms[k].name : k \in 1..Len(ms)}

\* C23: a signature with a braced body that occurs only inside a comment,
\* closed or not, or inside a string literal yields no unit: every name
\* extract_functions records has a signature outside them.
C23_NoMasquerade ==
    \A k \in 1..Len(functions) : functions[k].name \in NamesOutside(code)

(***************************************************************************)
(* The COBOL extractor on short sources: one call of                       *)
(* extract_cobol_call_graph on a few lines with the names A, B, C and X,   *)
(* a name alone on its line, a section header, a paragraph line "A.",      *)
(* statements after a name on the same line and a statement on a line of   *)
(* its own.                                                                *)
(***************************************************************************)
MaxCobolLines == 3

CobolLines ==
    { <<"A", NL>>,
      <<"B", " ">> \o SectionDot \o <<NL>>,
      <<"A", ".", NL>>,
      <<"A", " ">> \o PerformWord \o <<" ", "B", NL>>,
      <<"B", " ">> \o PerformWord \o <<" ", "C", NL>>,
      <<"B", " ">> \o CallWord \o <<" ", DQ, "X", DQ, NL>>,
      <<"A", " ">> \o CallWord \o <<" ", "B", NL>>,
      <<" ">> \o PerformWord \o <<" ", "B", NL>> }

CobolInit ==
    /\ pc = "cobol"
    /\ code \in {Flatten(ls) : ls \in TextsUpTo(CobolLines, MaxCobolLines)}
    /\ txt = <<>>
    /\ MatcherIdle
    /\ ExtractIdle
    /\ GraphIdle
    /\ ThreadIdle

CobolNext == CobolGraph

CobolSpec == CobolInit /\ [][CobolNext]_vars

(***************************************************************************)
(* C24.  Where the body of a COBOL unit ends.                              *)
(***************************************************************************)

\* the matches of PARA_RE in s in text order, from the search index from on
RECURSIVE ParaMatches(_, _)
ParaMatches(s, from) ==
    LET found == ParaSearch(s, from)
    IN  IF found = NoMatch THEN <<>>
        ELSE <<found>> \o ParaMatches(s, found.end)

\* the index where the name of the match found starts in s
NameOffset(s, found) == Space0(s, found.start)

\* C24: the body of every unit runs from just after its name to the offset
\* where the name of the next recognised unit starts, to the end of the text
\* after the last name; it holds nothing of the next unit, not even its name.
C24_BodyStopsAtNextName ==
    pc = "cobol_built" =>
        LET ms == ParaMatches(code, 0)
        IN  \A i \in 1..Len(units) :
                \E k \in 1..Len(ms) :
                    /\ ms[k].name = units[i].name
                    /\ units[i].body =
                          Slice(code, ms[k].end,
                                IF k = Len(ms) THEN Len(code)
                                ELSE NameOffset(code, ms[k + 1]))

(***************************************************************************)
(* C25.  Which leading tokens become units.                                *)
(***************************************************************************)

\* division and section keywords and statement verbs
CobolReservedWords ==
    { <<"I", "D", "E", "N", "T", "I", "F", "I", "C", "A", "T", "I", "O", "N">>,
      <<"E", "N", "V", "I", "R", "O", "N", "M", "E", "N", "T">>,
      <<"D", "A", "T", "A">>,
      <<"P", "R", "O", "C", "E", "D", "U", "R", "E">>,
      <<"W", "O", "R", "K", "I", "N", "G", "-", "S", "T", "O", "R", "A", "G", "E">>,
      PerformWord, CallWord }

\* the names NAME of the lines of s of the form "NAME.", indented or not
ParagraphNames(s) ==
    {Slice(s, j, k) : <<j, k>> \in
        {jk \in (0..Len(s)) \X (0..Len(s)) :
            /\ jk[1] < jk[2]
            /\ \A x \in jk[1]..(jk[2] - 1) : At(s, x) \in CobolNameChars
            /\ HasAt(s, jk[2], <<".", NL>>)
            /\ \E p \in 0..jk[1] :
                  /\ p = 0 \/ At(s, p - 1) = NL
                  /\ \A x \in p..(jk[1] - 1) : At(s, x) = " "}}

\* C25: no division or section keyword and no statement verb that leads a
\* line becomes a unit, and every paragraph line "NAME." makes a unit NAME.
C25_OnlyParagraphNames ==
    pc = "cobol_built" =>
        /\ DictKeys(units) \cap CobolReservedWords = {}
        /\ ParagraphNames(code) \subseteq DictKeys(units)

(***************************************************************************)
(* C26.  CALL targets and PERFORM targets in the COBOL graph.              *)
(***************************************************************************)

\* the targets of the statements of one body
Targets(names) == {names[k] : k \in 1..Len(names)}

\* the edges the bodies of the units d give: every CALL target, and the
\* PERFORM targets that are names of units
CobolEdges(d) ==
    UNION {{<<d[i].name, t>> : t \in Targets(CobolCallNames(d[i].body, 0))}
             \cup {<<d[i].name, t>> :
                      t \in Targets(PerformNames(d[i].body, 0)) \cap DictKeys(d)} :
           i \in 1..Len(d)}

\* C26: the edges extract_cobol_call_graph returns are, for every unit, one
\* edge to every CALL target in its body, known unit or not, quoted or not,
\* and one edge to every PERFORM target in its body that is a known unit;
\* a PERFORM target that is no unit gives no edge.
C26_CallAlwaysPerformIfKnown ==
    pc = "cobol_built" => Items(edges) = CobolEdges(units)

\* a unit performs a known unit and an unknown name and a unit calls an
\* unknown program in quotes: the first and the last are edges
C26_Witness ==
    /\ pc = "cobol_built"
    /\ \E i \in 1..Len(units) :
          LET performed == Targets(PerformNames(units[i].body, 0))
          IN  /\ \E t \in performed \cap DictKeys(units) :
                    <<units[i].name, t>> \in Items(edges)
              /\ \E t \in performed \ DictKeys(units) :
                    <<units[i].name, t>> \notin Items(edges)
    /\ \E i \in 1..Len(units) :
          /\ HasAt(units[i].body, 0, CallWord \o <<" ", DQ>>)
          /\ \E t \in Targets(CobolCallNames(units[i].body, 0)) \ DictKeys(units) :
                <<units[i].name, t>> \in Items(edges)

(***************************************************************************)
(* _find_matching statement by statement: the locals i and depth are       *)
(* scan.i and scan.depth; pc is "loop" at the test of the outer while,     *)
(* "skip_dq" or "skip_sq" at the test of the inner while that skips a      *)
(* literal, and "matched" when the function has returned.  The scan starts *)
(* at any index of a text that is not empty, for parentheses.              *)
(***************************************************************************)
MaxStepLen == 4

StepChars == {"(", ")", DQ, SQ, BS, "/", "*", NL}

StepInit ==
    /\ pc = "loop"
    /\ code \in TextsUpTo(StepChars, MaxStepLen)
    /\ start_idx \in 0..(MaxStepLen - 1)
    /\ start_idx < Len(code)
    /\ open_ch = "("
    /\ close_ch = ")"
    /\ result = None
    /\ scan = [i |-> start_idx, depth |-> 0]
    /\ txt = <<>>
    /\ ExtractIdle
    /\ GraphIdle
    /\ ThreadIdle

\* what no statement of _find_matching assigns
stepFrame ==
    <<code, txt, start_idx, open_ch, close_ch, extractVars, RESERVED,
      policyVars, graphVars, cobolVars, threadVars>>

\* pc of the inner loop that skips a literal in quotes q
SkipAt(q) == IF q = DQ THEN "skip_dq" ELSE "skip_sq"

\* "return v"
StepReturn(v) ==
    /\ result' = v
    /\ pc' = "matched"

\* the outer loop goes on with i at j
StepOn(j) ==
    /\ scan' = [scan EXCEPT !.i = j]
    /\ UNCHANGED <<pc, result>>

\* the test "while i < n" holds and code[i] is ch
LoopAt(ch) ==
    /\ pc = "loop"
    /\ scan.i < Len(code)
    /\ At(code, scan.i) = ch

\* "if ch == open_ch: depth += 1", then "i += 1"
LoopOpen ==
    /\ LoopAt(open_ch)
    /\ scan' = [i |-> scan.i + 1, depth |-> scan.depth + 1]
    /\ UNCHANGED <<pc, result, stepFrame>>

\* "elif ch == close_ch: depth -= 1; if depth == 0: return i", else "i += 1"
LoopClose ==
    /\ LoopAt(close_ch)
    /\ close_ch # open_ch
    /\ IF scan.depth - 1 = 0
       THEN /\ scan' = [scan EXCEPT !.depth = @ - 1]
            /\ StepReturn(scan.i)
       ELSE /\ scan' = [i |-> scan.i + 1, depth |-> scan.depth - 1]
            /\ UNCHANGED <<pc, result>>
    /\ UNCHANGED stepFrame

\* "elif ch == q: i += 1", to the inner loop
LoopQuote(q) ==
    /\ LoopAt(q)
    /\ q \notin {open_ch, close_ch}
    /\ scan' = [scan EXCEPT !.i = @ + 1]
    /\ pc' = SkipAt(q)
    /\ UNCHANGED <<result, stepFrame>>

\* a body of the inner loop that does not move at a backslash
SkipAdvanceStuck(s, j) == IF At(s, j) = BS THEN j ELSE j + 1

\* the body of the inner loop: "if code[i] == '\\': i += 1", then "i += 1"
SkipAdvance(s, j) == (IF At(s, j) = BS THEN j + 1 ELSE j) + 1

\* one iteration of "while i < n and code[i] != q"
SkipStep(q) ==
    /\ pc = SkipAt(q)
    /\ scan.i < Len(code)
    /\ At(code, scan.i) # q
    /\ StepOn(SkipAdvance(code, scan.i))
    /\ UNCHANGED stepFrame

\* the inner loop ends, at the closing quote or at the end of the text; the
\* iteration of the outer loop ends with "i += 1"
SkipEnd(q) ==
    /\ pc = SkipAt(q)
    /\ ~(scan.i < Len(code) /\ At(code, scan.i) # q)
    /\ scan' = [scan EXCEPT !.i = @ + 1]
    /\ pc' = "loop"
    /\ UNCHANGED <<result, stepFrame>>

\* code[i] is "/" and the character next is c
LoopSlash(c) ==
    /\ LoopAt("/")
    /\ "/" \notin {open_ch, close_ch}
    /\ scan.i + 1 < Len(code)
    /\ At(code, scan.i + 1) = c

\* the block comment: "end = code.find('*/', i + 2)", None if it is not
\* closed, else "i = end + 1" and "i += 1"
LoopBlockComment ==
    /\ LoopSlash("*")
    /\ LET end == Find(code, <<"*", "/">>, scan.i + 2)
       IN  IF end = -1
           THEN StepReturn(None) /\ UNCHANGED scan
           ELSE StepOn(end + 1 + 1)
    /\ UNCHANGED stepFrame

\* the line comment: "end = code.find('\n', i + 2)", "return n - 1" if there
\* is no newline, else "i = end" and "i += 1"
LoopLineComment ==
    /\ LoopSlash("/")
    /\ LET end == Find(code, <<NL>>, scan.i + 2)
       IN  IF end = -1
           THEN StepReturn(Len(code) - 1) /\ UNCHANGED scan
           ELSE StepOn(end + 1)
    /\ UNCHANGED stepFrame

\* no branch takes the character: "i += 1"
LoopOther ==
    /\ pc = "loop"
    /\ scan.i < Len(code)
    /\ At(code, scan.i) \notin {open_ch, close_ch, DQ, SQ}
    /\ ~(\E c \in {"*", "/"} : LoopSlash(c))
    /\ StepOn(scan.i + 1)
    /\ UNCHANGED stepFrame

\* the test "while i < n" fails: "return None"
LoopEnd ==
    /\ pc = "loop"
    /\ scan.i >= Len(code)
    /\ StepReturn(None)
    /\ UNCHANGED <<scan, stepFrame>>

StepNext ==
    \/ LoopOpen
    \/ LoopClose
    \/ \E q \in Quotes : LoopQuote(q)
    \/ \E q \in Quotes : SkipStep(q)
    \/ \E q \in Quotes : SkipEnd(q)
    \/ LoopBlockComment
    \/ LoopLineComment
    \/ LoopOther
    \/ LoopEnd

StepSpec == StepInit /\ [][StepNext]_vars

\* the interpreter runs the next statement of the call
StepFairSpec == StepSpec /\ WF_vars(StepNext)

(***************************************************************************)
(* C27.  _find_matching terminates.                                        *)
(***************************************************************************)

\* the indices of the text that the statement the call is at reads
StepReads ==
    IF pc = "matched" \/ scan.i >= Len(code) THEN {}
    ELSE IF pc = "loop" /\ At(code, scan.i) = "/" /\ scan.i + 1 < Len(code)
         THEN {scan.i, scan.i + 1}
    ELSE {scan.i}

\* C27: on every text, from every start index within it, every iteration
\* of the outer loop and of the loops that skip a literal moves the scan
\* index forward, as does the skip of a comment; no statement reads an index
\* outside the text; and the call ends, returning an index of the text or
\* None.
C27_Terminates ==
    /\ [][pc' # "matched" => scan'.i > scan.i]_vars
    /\ [](StepReads \subseteq 0..(Len(code) - 1))
    /\ [](pc = "matched" => (result = None \/ result \in 0..(Len(code) - 1)))
    /\ <>(pc = "matched")

\* the text ends with a backslash inside a literal that is not closed: the
\* inner loop stepped over the end of the text, and the call returned None
C27_Witness ==
    /\ pc = "matched"
    /\ result = None
    /\ scan.i = Len(code) + 2
    /\ At(code, Len(code) - 1) = BS

(***************************************************************************)
(* The NumberGenerator without a lock (numberGenerator.py): each thread    *)
(* constructs NumberGenerator() and calls get_next_number() once, no       *)
(* statement waits for another thread.                                     *)
(***************************************************************************)

\* generator = NumberGenerator(): the call of __new__
PlainCall(t) ==
    /\ Goes(t, "start", "plain_test")
    /\ UNCHANGED <<pc, lock, instance, heap, files, local, sequentialVars>>

\* if cls._instance is None:
PlainTest(t) ==
    /\ Goes(t, "plain_test",
            IF instance = None THEN "plain_alloc" ELSE "plain_return")
    /\ UNCHANGED <<pc, lock, instance, heap, files, local, sequentialVars>>

\* cls._instance = super().__new__(cls)
PlainAllocate(t) ==
    /\ Goes(t, "plain_alloc", "plain_return")
    /\ heap' = Append(heap, [_current_number |-> 0])
    /\ instance' = Len(heap) + 1
    /\ UNCHANGED <<pc, lock, files, local, sequentialVars>>

\* return cls._instance, and the assignment to generator
PlainReturn(t) ==
    /\ Goes(t, "plain_return", "plain_read")
    /\ local' = [local EXCEPT ![t].self = instance]
    /\ UNCHANGED <<pc, lock, instance, heap, files, sequentialVars>>

\* generator.get_next_number(): number = self._current_number
PlainRead(t) ==
    /\ Goes(t, "plain_read", "plain_load")
    /\ local' = [local EXCEPT ![t].number = heap[local[t].self]._current_number]
    /\ UNCHANGED <<pc, lock, instance, heap, files, sequentialVars>>

\* self._current_number += 1: the load
PlainLoad(t) ==
    /\ Goes(t, "plain_load", "plain_store")
    /\ local' = [local EXCEPT ![t].loaded = heap[local[t].self]._current_number]
    /\ UNCHANGED <<pc, lock, instance, heap, files, sequentialVars>>

\* self._current_number += 1: the store, and "return number"
PlainStore(t) ==
    /\ Goes(t, "plain_store", "done")
    /\ heap' = [heap EXCEPT ![local[t].self]._current_number =
                   Incremented(local[t].loaded)]
    /\ UNCHANGED <<pc, lock, instance, files, local, sequentialVars>>

PlainNext ==
    \E t \in Threads :
        \/ PlainCall(t)
        \/ PlainTest(t)
        \/ PlainAllocate(t)
        \/ PlainReturn(t)
        \/ PlainRead(t)
        \/ PlainLoad(t)
        \/ PlainStore(t)

PlainSpec == GeneratorInit /\ [][PlainNext]_vars

(***************************************************************************)
(* C28.  The numbers the generator without a lock returns.                 *)
(***************************************************************************)

\* C28: under every interleaving of the threads that call get_next_number
\* of the generator without a lock, no number is returned twice and no
\* increment is lost: the k calls that have returned have the numbers
\* 0 .. k-1.
C28_PlainNumbersDistinct ==
    /\ \A t \in Numbered : \A u \in Numbered :
          local[t].number = local[u].number => t = u
    /\ {local[t].number : t \in Numbered} = 0..(Cardinality(Numbered) - 1)

(***************************************************************************)
(* FileAuditManager when the file system fails: opening the file, writing  *)
(* to it or closing it can raise OSError.  The exception leaves the two    *)
(* with-statements, which close the file and release the lock, then the    *)
(* function and test_file_audit_manager, and ends the thread.              *)
(***************************************************************************)

\* the statements that open the file, write to it or close it
FileStatements ==
    {"new_open", "new_write", "new_close", "log_open", "log_write", "log_close"}

\* a with-statement on the lock that keeps the lock when an exception
\* leaves it
UnwoundHeld(l) == l

\* the lock after an exception has left "with cls._lock" / "with self._lock"
Unwound(l) == None

\* the statement the thread is at raises: what it had buffered is not
\* written, the lock is released, the thread ends
IORaises(t) ==
    /\ tpc[t] \in FileStatements
    /\ tpc' = [tpc EXCEPT ![t] = "raised"]
    /\ local' = [local EXCEPT ![t].file = NoFile]
    /\ lock' = Unwound(lock)
    /\ UNCHANGED <<pc, instance, heap, files, sequentialVars>>

\* the next statement of the thread t when nothing raises
AuditStep(t) ==
    \/ NewCall(t)
    \/ NewAcquire(t)
    \/ NewTest(t)
    \/ NewAllocate(t)
    \/ NewSetFileName(t)
    \/ NewOpen(t)
    \/ NewWrite(t)
    \/ NewClose(t)
    \/ NewRelease(t)
    \/ NewReturn(t)
    \/ LogAcquire(t)
    \/ LogTimestamp(t)
    \/ LogOpen(t)
    \/ LogWrite(t)
    \/ LogClose(t)
    \/ LogRelease(t)

AuditFaultNext ==
    \/ AuditNext
    \/ \E t \in Threads : IORaises(t)

AuditFaultSpec == AuditInit /\ [][AuditFaultNext]_vars

\* the scheduler runs every thread that can run: a thread whose next
\* statement stays enabled takes it, or raises
AuditFairSpec ==
    AuditFaultSpec /\ \A t \in Threads : WF_vars(AuditStep(t))

(***************************************************************************)
(* C29.  FileAuditManager does not deadlock.                               *)
(***************************************************************************)

\* the statements inside "with cls._lock" and "with self._lock"
LockedStatements ==
    {"new_test", "new_alloc", "new_name", "new_open", "new_write", "new_close",
     "new_unlock", "log_time", "log_open", "log_write", "log_close",
     "log_unlock"}

\* C29: no thread requests the lock while it holds it; the lock is held by
\* a thread inside one of the two with-statements only, released on every
\* exit of them, an exception included; and under fair scheduling every
\* thread ends, its two calls completed or one of them left by the
\* exception of a file operation.
C29_NoDeadlock ==
    /\ [](\A t \in Threads : tpc[t] \in {"new_lock", "log_lock"} => lock # t)
    /\ [](\A t \in Threads : lock = t <=> tpc[t] \in LockedStatements)
    /\ <>(\A t \in Threads : tpc[t] \in {"done", "raised"})

\* the thread that created the instance raised before it wrote the header,
\* inside the with-statement on the lock; the lock is free, another thread
\* has logged its message since, and every thread has ended
C29_Witness ==
    /\ \A t \in Threads : tpc[t] \in {"done", "raised"}
    /\ lock = None
    /\ Len(heap) = 1
    /\ Cardinality(Headers) = 0
    /\ \E t \in Threads : tpc[t] = "done" /\ Cardinality(EntriesOf(t)) = 1

(***************************************************************************)
(* C30.  The header comes first.                                           *)
(***************************************************************************)

\* the lines of the file f that are entries of log_message
EntryLines(f) == {k \in 1..Len(files[f]) : files[f][k] # Header}

====
